---- MODULE Spec2Model ----
(***************************************************************************)
(* Model of the request router of GlyphMind AI                             *)
(* (src/router/request_router.py): the sliding-window RateLimiter, the     *)
(* rule table and route_request dispatcher with its retry loop, and the    *)
(* RequestQueue of four asyncio queues drained by the worker loops.        *)
(*                                                                         *)
(* Time.  datetime.now() is modelled by the clock `now`, counted in ticks  *)
(* of 1/TicksPerMinute minute.  Every call of datetime.now() is a read of  *)
(* a non-decreasing clock.  The seconds a route_request call has spent in  *)
(* asyncio.wait_for deadlines and asyncio.sleep backoffs are accumulated   *)
(* per call in call[c].waited.                                             *)
(***************************************************************************)
EXTENDS Integers, Sequences, FiniteSets, TLC

VARIABLES
    now,        \* the wall clock read by datetime.now(), in ticks
    requests,   \* RateLimiter.requests: key -> list of admission timestamps
    admitted,   \* history: key -> the time of every admission ever made
    peak,       \* history: key -> the largest limit under which it was admitted
    denied,     \* history: keys rejected with get_remaining = 0 since their last admission
    rl,         \* history: the last RateLimiter call and what it returned
    routes,     \* RequestRouter.routes: the ordered rule list
    handlers,   \* RequestRouter.handlers: the registered handler names
    stats,      \* RequestRouter.stats: the RequestStats counters
    ctx,        \* caller -> the RequestContext it owns and passes by reference
    call,       \* caller -> its route_request call: position, attempts, outcome
    calls,      \* history: route_request calls begun
    api_log,    \* the last log_api_request event
    resets,     \* history: reset_stats calls made
    max_size,   \* RequestQueue.max_size: the overall maximum the queue was built with
    queues,     \* RequestQueue.queues: priority -> the items of its asyncio.Queue
    prod,       \* producer -> its queue_request call
    wrk,        \* worker -> the position of its _worker_loop
    nput,       \* history: queue_request calls made
    is_processing,  \* RequestRouter.is_processing
    worker_tasks,   \* RequestRouter.worker_tasks: the list of worker tasks
    pool,       \* the stop_workers call in progress and the history of the pool calls
    handled,    \* history: item id -> the pair queued and what a worker did with it
    rules_file, \* the content of router/router_rules.json
    added,      \* history: add_route calls made by the application
    loaded      \* _load_routing_rules has run (the router is constructed)

rlVars == <<now, requests, admitted, peak, denied, rl>>

routeVars == <<routes, handlers, stats, ctx, call, calls, api_log, resets>>

queueVars == <<max_size, queues, prod, wrk, nput, is_processing, worker_tasks, pool,
               handled>>

configVars == <<rules_file, added, loaded>>

vars == <<now, requests, admitted, peak, denied, rl,
          routes, handlers, stats, ctx, call, calls, api_log, resets,
          max_size, queues, prod, wrk, nput, is_processing, worker_tasks, pool,
          handled, rules_file, added, loaded>>

----------------------------------------------------------------------------
(* Bounds of the model *)

MaxTime == 3          \* the clock stops ticking here
TicksPerMinute == 2   \* resolution of the clock
MaxLimit == 2         \* rate limits drawn from 1..MaxLimit
MaxOps == 3           \* admissions explored by SpecRL

MaxRules == 2         \* rule tables of up to MaxRules rules
MaxAdds == 1          \* add_route calls explored
MaxEntries == 2       \* rules in router_rules.json
MaxCalls == 2         \* route_request calls explored
MaxResets == 1        \* reset_stats calls explored

MaxSize == 4          \* RequestQueue(max_size): the overall maximum queue size
MaxWorkers == 2       \* max_concurrent_workers, the default number of workers
MaxTasks == 2         \* worker tasks created in one run
MaxItems == 2         \* queue_request calls explored

(* Program constants *)

WindowMinutes == 1    \* window_minutes: int = 1

LOW == 1              \* Priority.LOW
NORMAL == 2           \* Priority.NORMAL
HIGH == 3             \* Priority.HIGH
CRITICAL == 4         \* Priority.CRITICAL

Priorities == {LOW, NORMAL, HIGH, CRITICAL}

\* RequestType values used by the model (of chat, search, knowledge, status, admin)
RequestTypes == {"chat", "status"}

\* user_id of a context: None, or an identity.  The identity is the string
\* the client sent (the X-User-ID header), which may be any word, "anonymous"
\* included.
NoUser == "None"

UserIds == {NoUser, "u1", "anonymous"}

Window == WindowMinutes * TicksPerMinute

Max(a, b) == IF a >= b THEN a ELSE b

Min(a, b) == IF a <= b THEN a ELSE b

\* rate_key = f"{context.user_id or 'anonymous'}:{context.request_type.value}"
RateKey(cx) ==
    <<IF cx.user_id = NoUser THEN "anonymous" ELSE cx.user_id, cx.request_type>>

AllKeys == {"anonymous", "u1"} \X RequestTypes

\* the keys the RateLimiter is called with directly under SpecRL
Keys == {<<"u1", "chat">>, <<"anonymous", "chat">>}

----------------------------------------------------------------------------
(* RateLimiter *)

\* mutant of Recent: a timestamp exactly one window old is kept
Recent_closed(ts, t) == SelectSeq(ts, LAMBDA x : x >= t - Window)

\* [req_time for req_time in self.requests[key] if req_time > window_start]
Recent(ts, t) == SelectSeq(ts, LAMBDA x : x > t - Window)

\* the purge of is_allowed: the key's list is created empty when absent
Purged(reqs, key, t) ==
    IF key \in DOMAIN reqs THEN Recent(reqs[key], t) ELSE <<>>

\* mutant of is_allowed: the limit check is off by one (> for >=)
is_allowed_off_by_one(reqs, key, limit, t) ==
    LET p == Purged(reqs, key, t)
        with(l) == [k \in DOMAIN reqs \cup {key} |-> IF k = key THEN l ELSE reqs[k]]
    IN  IF Len(p) > limit
        THEN [ok |-> FALSE, requests |-> with(p)]
        ELSE [ok |-> TRUE, requests |-> with(Append(p, t))]

\* mutant of is_allowed: a rejected call records its timestamp too
is_allowed_records_rejection(reqs, key, limit, t) ==
    LET p == Purged(reqs, key, t)
        with(l) == [k \in DOMAIN reqs \cup {key} |-> IF k = key THEN l ELSE reqs[k]]
    IN  [ok |-> Len(p) < limit, requests |-> with(Append(p, t))]

\* RateLimiter.is_allowed read at clock value t: the value returned and the
\* mapping left behind.  The function runs without an await: one atomic step.
is_allowed(reqs, key, limit, t) ==
    LET p == Purged(reqs, key, t)
        with(l) == [k \in DOMAIN reqs \cup {key} |-> IF k = key THEN l ELSE reqs[k]]
    IN  IF Len(p) >= limit
        THEN [ok |-> FALSE, requests |-> with(p)]
        ELSE [ok |-> TRUE, requests |-> with(Append(p, t))]

\* mutant of get_remaining: the result is not clamped at zero
get_remaining_unclamped(reqs, key, limit, t) ==
    IF key \notin DOMAIN reqs
    THEN limit
    ELSE limit - Len(Recent(reqs[key], t))

\* RateLimiter.get_remaining read at clock value t
get_remaining(reqs, key, limit, t) ==
    IF key \notin DOMAIN reqs
    THEN limit
    ELSE Max(0, limit - Len(Recent(reqs[key], t)))

NoCall == [op |-> "none", key |-> "", limit |-> 0, at |-> 0, result |-> 0,
           recovered |-> FALSE]

\* RateLimiter.__init__, with the histories empty
RLInit ==
    /\ now = 0
    /\ requests = [k \in {} |-> <<>>]
    /\ admitted = [k \in AllKeys |-> <<>>]
    /\ peak = [k \in AllKeys |-> 0]
    /\ denied = {}
    /\ rl = NoCall

\* time passes
Tick ==
    /\ now < MaxTime
    /\ now' = now + 1
    /\ UNCHANGED <<requests, admitted, peak, denied, rl>>
    /\ UNCHANGED <<routeVars, queueVars, configVars>>

RLOps == Len(admitted[<<"u1", "chat">>]) + Len(admitted[<<"anonymous", "chat">>])

\* a caller of the limiter: is_allowed(key, limit) at the current time
IsAllowedCall(key, limit) ==
    LET r == is_allowed(requests, key, limit, now)
        old == IF key \in DOMAIN requests THEN requests[key] ELSE <<>>
    IN  /\ requests' = r.requests
        /\ admitted' = IF r.ok THEN [admitted EXCEPT ![key] = Append(@, now)]
                       ELSE admitted
        /\ peak' = IF r.ok THEN [peak EXCEPT ![key] = Max(@, limit)] ELSE peak
        /\ denied' = IF r.ok THEN denied \ {key} ELSE denied
        /\ rl' = [op |-> "is_allowed", key |-> key, limit |-> limit, at |-> now,
                  result |-> IF r.ok THEN 1 ELSE 0,
                  recovered |-> key \in denied
                                /\ \A i \in 1..Len(old) : old[i] <= now - Window]
        /\ UNCHANGED now

\* a caller of the limiter: get_remaining(key, limit) at the current time
GetRemainingCall(key, limit) ==
    LET n == get_remaining(requests, key, limit, now)
    IN  /\ rl' = [op |-> "get_remaining", key |-> key, limit |-> limit, at |-> now,
                  result |-> n, recovered |-> FALSE]
        /\ denied' = IF n = 0 /\ rl.op = "is_allowed" /\ rl.key = key
                         /\ rl.limit = limit /\ rl.result = 0
                     THEN denied \cup {key} ELSE denied
        /\ UNCHANGED <<now, requests, admitted, peak>>

RLIsAllowed ==
    \E key \in Keys, limit \in 1..MaxLimit :
        /\ RLOps < MaxOps
        /\ IsAllowedCall(key, limit)
        /\ UNCHANGED <<routeVars, queueVars, configVars>>

RLGetRemaining ==
    \E key \in Keys, limit \in 1..MaxLimit :
        /\ GetRemainingCall(key, limit)
        /\ UNCHANGED <<routeVars, queueVars, configVars>>



----------------------------------------------------------------------------
(* Rule table *)

\* A RouteRule.  condition is the predicate: "chat" and "status" compare the
\* request type (the lambdas of _create_default_rules and
\* _create_rule_from_config), "true" is the catch-all lambda ctx: True, and
\* "raises" is a predicate that raises on every context.  rate_limit 0 stands
\* for None (both are falsy in `if matching_rule.rate_limit`).
Rule(n, c, h, b, r, t, a) ==
    [name |-> n, condition |-> c, handler |-> h, priority_boost |-> b,
     rate_limit |-> r, timeout_seconds |-> t, retry_attempts |-> a]

\* the rules the tables of the model are built from
RuleUniverse ==
    { Rule("chat_requests", "chat", "handle_chat", 0, 1, 1, 3),
      Rule("status_requests", "status", "handle_status", -1, 0, 2, 1),
      Rule("unknown", "true", "default_handler", 2, 2, 1, 0),
      Rule("custom", "raises", "handle_chat", 1, 0, 2, 2) }

\* every ordered list of at most MaxRules distinct rules
RuleTables ==
    { t \in UNION { [1..n -> RuleUniverse] : n \in 0..MaxRules } :
        \A i, j \in DOMAIN t : i # j => t[i] # t[j] }

\* the handler names registered by the application (server/app.py)
Registered == {"handle_chat", "handle_status"}

\* rule.condition(context): "true", "false", or "raise" when the predicate raises
Condition(rule, cx) ==
    CASE rule.condition = "true" -> "true"
      [] rule.condition = "raises" -> "raise"
      [] OTHER -> IF rule.condition = cx.request_type THEN "true" ELSE "false"

RECURSIVE FindFrom_raise_aborts(_, _, _)
\* mutant of FindFrom: a predicate that raises ends the search with None
FindFrom_raise_aborts(rs, cx, i) ==
    IF i > Len(rs) THEN 0
    ELSE IF Condition(rs[i], cx) = "true" THEN i
    ELSE IF Condition(rs[i], cx) = "raise" THEN 0
    ELSE FindFrom_raise_aborts(rs, cx, i + 1)

RECURSIVE FindFrom(_, _, _)
\* the for loop of _find_matching_route from rule i on: a predicate that raises
\* is logged and skipped; 0 stands for None
FindFrom(rs, cx, i) ==
    IF i > Len(rs) THEN 0
    ELSE IF Condition(rs[i], cx) = "true" THEN i
    ELSE FindFrom(rs, cx, i + 1)

RECURSIVE FindLastFrom(_, _, _)
\* mutant of _find_matching_route: the last matching rule wins
FindLastFrom(rs, cx, i) ==
    IF i < 1 THEN 0
    ELSE IF Condition(rs[i], cx) = "true" THEN i
    ELSE FindLastFrom(rs, cx, i - 1)

find_last_matching_route(rs, cx) == FindLastFrom(rs, cx, Len(rs))

\* RequestRouter._find_matching_route: the index of the rule returned, 0 for None
find_matching_route(rs, cx) == FindFrom(rs, cx, 1)

----------------------------------------------------------------------------
(* Construction: _load_routing_rules, add_route, register_handler *)

\* _create_default_rules: the five rules in the order they are added
DefaultRules ==
    << Rule("chat_requests", "chat", "handle_chat", 0, 60, 30, 3),
       Rule("search_requests", "search", "handle_search", 0, 30, 15, 3),
       Rule("knowledge_requests", "knowledge", "handle_knowledge", 0, 100, 10, 3),
       Rule("status_requests", "status", "handle_status", 1, 120, 5, 3),
       Rule("admin_requests", "admin", "handle_admin", 2, 10, 60, 3) >>

\* the keys of a rule object in router_rules.json that _create_rule_from_config reads
RuleKeys == {"name", "handler", "priority_boost", "rate_limit",
             "timeout_seconds", "retry_attempts"}

\* an element of the "rules" list of the file: an object with the keys `keys`
\* present (object = TRUE), or a value that is not an object (a string, a number)
Entry(ks, n, h, b, r, t, a) ==
    [object |-> TRUE, keys |-> ks, name |-> n, handler |-> h, priority_boost |-> b,
     rate_limit |-> r, timeout_seconds |-> t, retry_attempts |-> a]

NotAnObject == [Entry({}, "", "", 0, 0, 0, 0) EXCEPT !.object = FALSE]

\* the object _save_routing_rules writes for a rule (the condition is not saved)
Saved(rule) ==
    Entry(RuleKeys, rule.name, rule.handler, rule.priority_boost, rule.rate_limit,
          rule.timeout_seconds, rule.retry_attempts)

\* router_rules.json: absent, or present with content that json.load parses
\* into an object with a "rules" list (json = TRUE) or not
NoFile == [exists |-> FALSE, json |-> FALSE, rules |-> <<>>]

Garbage == [exists |-> TRUE, json |-> FALSE, rules |-> <<>>]

RulesFile(entries) == [exists |-> TRUE, json |-> TRUE, rules |-> entries]

\* _save_routing_rules: json.dump of one object per rule of self.routes
SavedFile(rs) == RulesFile([i \in 1..Len(rs) |-> Saved(rs[i])])

\* the request type words that occur in a rule name (`"chat" in name`, ...)
WordsIn(name) ==
    CASE name = "chat_requests" -> {"chat"}
      [] name = "search_requests" -> {"search"}
      [] name = "knowledge_requests" -> {"knowledge"}
      [] name = "status_requests" -> {"status"}
      [] name = "admin_requests" -> {"admin"}
      [] name = "chat_status" -> {"chat", "status"}
      [] OTHER -> {}

\* "Create condition based on name": the if/elif chain of _create_rule_from_config
ConditionOf(name) ==
    CASE "chat" \in WordsIn(name) -> "chat"
      [] "search" \in WordsIn(name) -> "search"
      [] "knowledge" \in WordsIn(name) -> "knowledge"
      [] "status" \in WordsIn(name) -> "status"
      [] "admin" \in WordsIn(name) -> "admin"
      [] OTHER -> "true"

\* rule_data.get(key, default)
Get(e, key, value, default) == IF key \in e.keys THEN value ELSE default

\* _create_rule_from_config(rule_data) for an object: the rule it appends
FromConfig(e) ==
    LET name == Get(e, "name", e.name, "unknown")
    IN  Rule(name, ConditionOf(name),
             Get(e, "handler", e.handler, "default_handler"),
             Get(e, "priority_boost", e.priority_boost, 0),
             Get(e, "rate_limit", e.rate_limit, 0),
             Get(e, "timeout_seconds", e.timeout_seconds, 30),
             Get(e, "retry_attempts", e.retry_attempts, 3))

\* the index of the first element of the list that is not an object (0: none);
\* rule_data.get raises AttributeError there
FirstBad(entries) ==
    LET bad == {i \in 1..Len(entries) : ~entries[i].object}
    IN  IF bad = {} THEN 0 ELSE CHOOSE i \in bad : \A j \in bad : i <= j

\* _load_routing_rules: the rule list and the file it leaves.  An absent file
\* gives the default rules, which are saved.  A file that cannot be loaded
\* raises: the except branch adds the default rules after the rules appended
\* so far and does not save
LoadRules(file) ==
    IF ~file.exists
    THEN [routes |-> DefaultRules, file |-> SavedFile(DefaultRules)]
    ELSE IF ~file.json
    THEN [routes |-> DefaultRules, file |-> file]
    ELSE LET bad == FirstBad(file.rules)
         IN  IF bad = 0
             THEN [routes |-> [i \in 1..Len(file.rules) |-> FromConfig(file.rules[i])],
                   file |-> file]
             ELSE [routes |-> [i \in 1..(bad - 1) |-> FromConfig(file.rules[i])]
                                \o DefaultRules,
                   file |-> file]

\* the elements the rule lists of the model's files are made of
FileEntries ==
    { Saved(DefaultRules[1]),
      Entry({"name", "rate_limit"}, "chat_status", "", 0, 1, 0, 0),
      Entry({}, "", "", 0, 0, 0, 0),
      NotAnObject }

\* the files the router is constructed on
Files ==
    {NoFile, Garbage} \cup
    { RulesFile(entries) : entries \in UNION { [1..n -> FileEntries] : n \in 0..MaxEntries } }

\* the handler names an application registers
HandlerNames == {"handle_chat", "handle_status", "default_handler"}

\* the router object before __init__ has loaded its rules
ConfigInit ==
    /\ rules_file \in Files
    /\ loaded = FALSE
    /\ added = 0

\* a router that is constructed; its rules file is not read again
Constructed ==
    /\ rules_file = NoFile
    /\ loaded = TRUE
    /\ added = 0

\* RequestRouter.__init__: self._load_routing_rules()
LoadRoutingRules ==
    /\ ~loaded
    /\ loaded' = TRUE
    /\ routes' = LoadRules(rules_file).routes
    /\ rules_file' = LoadRules(rules_file).file
    /\ UNCHANGED <<handlers, stats, ctx, call, calls, api_log, resets, added>>
    /\ UNCHANGED <<rlVars, queueVars>>

\* add_route(rule): self.routes.append(rule)
AddRoute(rule) ==
    /\ loaded
    /\ calls = 0
    /\ added < MaxAdds
    /\ added' = added + 1
    /\ routes' = Append(routes, rule)
    /\ UNCHANGED <<handlers, stats, ctx, call, calls, api_log, resets, rules_file, loaded>>
    /\ UNCHANGED <<rlVars, queueVars>>

\* register_handler(name, handler): self.handlers[name] = handler
RegisterHandler(name) ==
    /\ loaded
    /\ calls = 0
    /\ handlers' = handlers \cup {name}
    /\ UNCHANGED <<routes, stats, ctx, call, calls, api_log, resets>>
    /\ UNCHANGED <<rlVars, queueVars, configVars>>

----------------------------------------------------------------------------
(* Dispatcher: RequestRouter.route_request *)

Callers == {"c1", "c2"}

\* the callers that call route_request under SpecRoute
RouteCallers == {"c1"}

\* the identity each caller puts in its contexts: c1 is user u1, c2 is anonymous
UserOf(c) == IF c = "c1" THEN "u1" ELSE NoUser

\* RequestStats(): average_response_time is kept in whole seconds
ZeroStats ==
    [total_requests |-> 0, successful_requests |-> 0, failed_requests |-> 0,
     average_response_time |-> 0,
     requests_by_type |-> [k \in {} |-> 0],
     requests_by_priority |-> [k \in {} |-> 0]]

\* d[key] = d.get(key, 0) + 1
Incremented(d, key) ==
    [k \in DOMAIN d \cup {key} |->
        IF k = key THEN (IF key \in DOMAIN d THEN d[key] ELSE 0) + 1 ELSE d[k]]

\* mutant of Seen: the per-priority count is not kept
Seen_without_priority(st, cx) ==
    [st EXCEPT !.total_requests = @ + 1,
               !.requests_by_type = Incremented(@, cx.request_type)]

\* the "Update statistics" lines at the top of the try block
Seen(st, cx) ==
    [st EXCEPT !.total_requests = @ + 1,
               !.requests_by_type = Incremented(@, cx.request_type),
               !.requests_by_priority = Incremented(@, cx.priority)]

\* mutant of Boosted: the boost is added without the clamp at CRITICAL
Boosted_unclamped(priority, boost) ==
    IF boost > 0 THEN priority + boost ELSE priority

\* mutant of Boosted: a boost of any sign is applied
Boosted_any_sign(priority, boost) == Min(CRITICAL, priority + boost)

\* "Apply priority boost": Priority(min(4, context.priority.value + boost)), only when boost > 0
Boosted(priority, boost) ==
    IF boost > 0 THEN Min(CRITICAL, priority + boost) ELSE priority

NoOutcome == [kind |-> "none", arg |-> 0]

\* a route_request call: pc is its position, rule the index of the matched
\* rule, handler the handler resolved ("handler_override" or a registered
\* name), attempt the loop variable of _execute_with_retries, outcome what the
\* call returned or raised.  Histories: seq numbers the calls in the order
\* they began, entry_priority and at are the
\* context's priority and the clock at entry, invoked counts the handler
\* invocations, fails lists how the attempts failed, sleeps the backoff waits,
\* waited the seconds spent in expired deadlines and backoff waits, direct
\* how the handler ended that the API endpoint called itself after the call
\* had raised ("none": it was not called).
Idle == [pc |-> "idle", rule |-> 0, override |-> FALSE, handler |-> "", attempt |-> 0,
         seq |-> 0, entry_priority |-> 0, at |-> 0,
         invoked |-> 0, fails |-> <<>>, sleeps |-> <<>>, waited |-> 0,
         outcome |-> NoOutcome, direct |-> "none"]

\* mutant of Entered: the handler counts as invoked when the call is entered
Entered_invoked(c) ==
    [Idle EXCEPT !.seq = calls + 1, !.entry_priority = ctx[c].priority, !.at = now,
                 !.invoked = 1]

\* the call record at entry of route_request
Entered(c) ==
    [Idle EXCEPT !.seq = calls + 1, !.entry_priority = ctx[c].priority, !.at = now]

\* mutant of Raised: a raised outcome is not counted
Raised_uncounted(st) == st

\* the except and finally blocks of route_request: failed_requests += 1, the
\* exception re-raised, log_api_request with 200 if successful_requests > 0 else 500
Raised(st) == [st EXCEPT !.failed_requests = @ + 1]

ApiStatus(st) == IF st.successful_requests > 0 THEN 200 ELSE 500

\* _update_response_time_stats(execution_time), called in the finally block:
\* the running average over successful_requests + failed_requests calls
ResponseTime(st, execution_time) ==
    LET total_requests == st.successful_requests + st.failed_requests
    IN  IF total_requests > 0
        THEN [st EXCEPT !.average_response_time =
                (@ * (total_requests - 1) + execution_time) \div total_requests]
        ELSE st

\* a caller may call route_request when its previous call is over
MayCall(c) ==
    /\ loaded
    /\ call[c].pc \in {"idle", "returned", "raised"}
    /\ calls < MaxCalls

\* what the synchronous prefix of the call computes
Matched(c) == find_matching_route(routes, ctx[c])

\* the rate check of the matched rule, read at the clock value `now`
Admission(c) ==
    is_allowed(requests, RateKey(ctx[c]), routes[Matched(c)].rate_limit, now)

\* mutant of Limited: the limiter is asked under every matched rule
Limited_always(c) == Matched(c) # 0

\* `if matching_rule.rate_limit`: None and 0 skip the rate check
Limited(c) == Matched(c) # 0 /\ routes[Matched(c)].rate_limit # 0

\* handler = handler_override or self.handlers.get(matching_rule.handler)
Resolved(c, override) ==
    override \/ routes[Matched(c)].handler \in handlers

\* mutant of HandlerOf: the override is ignored
HandlerOf_rule_name(c, override) == routes[Matched(c)].handler

\* the handler that is executed: the override when one is given, else the
\* handler registered under the rule's handler name
HandlerOf(c, override) ==
    IF override THEN "handler_override" ELSE routes[Matched(c)].handler

\* mutant of PassRateCheck: the rate check admits without recording the call
PassRateCheck_unrecorded(c) ==
    /\ Matched(c) # 0
    /\ Limited(c) => Admission(c).ok
    /\ UNCHANGED rlVars

\* route_request up to the rate check, for a call that passes it: the limiter
\* and its histories after is_allowed
PassRateCheck(c) ==
    /\ Matched(c) # 0
    /\ IF Limited(c)
       THEN /\ Admission(c).ok
            /\ IsAllowedCall(RateKey(ctx[c]), routes[Matched(c)].rate_limit)
       ELSE UNCHANGED rlVars

\* route_request when no rule matches: ValueError("No route found ...")
RouteNoMatch(c) ==
    /\ MayCall(c)
    /\ Matched(c) = 0
    /\ stats' = ResponseTime(Raised(Seen(stats, ctx[c])), 0)
    /\ call' = [call EXCEPT ![c] = [Entered(c) EXCEPT !.pc = "raised",
                    !.outcome = [kind |-> "ValueError: No route found", arg |-> 0]]]
    /\ api_log' = [caller |-> c, status |-> ApiStatus(stats')]
    /\ calls' = calls + 1
    /\ UNCHANGED <<routes, handlers, ctx>>
    /\ UNCHANGED <<resets, queueVars, configVars>>
    /\ UNCHANGED rlVars

\* route_request when the limiter rejects: is_allowed reads the clock, then
\* get_remaining reads it again (a later or equal value) for the message of
\* Exception("Rate limit exceeded. ... Remaining: {remaining}")
RouteRateLimited(c) ==
    /\ MayCall(c)
    /\ Limited(c)
    /\ ~Admission(c).ok
    /\ LET rule == routes[Matched(c)]
           key == RateKey(ctx[c])
       IN  \E t2 \in now..Min(now + 1, MaxTime) :
            LET remaining == get_remaining(Admission(c).requests, key, rule.rate_limit, t2)
            IN  /\ requests' = Admission(c).requests
                /\ now' = t2
                /\ rl' = [op |-> "get_remaining", key |-> key, limit |-> rule.rate_limit,
                          at |-> t2, result |-> remaining, recovered |-> FALSE]
                /\ denied' = IF remaining = 0 THEN denied \cup {key} ELSE denied
                /\ UNCHANGED <<admitted, peak>>
                /\ ctx' = [ctx EXCEPT ![c].priority = Boosted(@, rule.priority_boost)]
                /\ stats' = ResponseTime(Raised(Seen(stats, ctx[c])), 0)
                /\ call' = [call EXCEPT ![c] = [Entered(c) EXCEPT !.pc = "raised",
                                !.rule = Matched(c),
                                !.outcome = [kind |-> "Exception: Rate limit exceeded",
                                             arg |-> remaining]]]
    /\ api_log' = [caller |-> c, status |-> ApiStatus(stats')]
    /\ calls' = calls + 1
    /\ UNCHANGED <<routes, handlers>>
    /\ UNCHANGED <<resets, queueVars, configVars>>

\* route_request when the rule's handler name is not registered and no
\* override is given: ValueError("Handler not found: ...")
RouteNoHandler(c) ==
    /\ MayCall(c)
    /\ PassRateCheck(c)
    /\ ~Resolved(c, FALSE)
    /\ ctx' = [ctx EXCEPT ![c].priority = Boosted(@, routes[Matched(c)].priority_boost)]
    /\ stats' = ResponseTime(Raised(Seen(stats, ctx[c])), 0)
    /\ call' = [call EXCEPT ![c] = [Entered(c) EXCEPT !.pc = "raised", !.rule = Matched(c),
                    !.outcome = [kind |-> "ValueError: Handler not found", arg |-> 0]]]
    /\ api_log' = [caller |-> c, status |-> ApiStatus(stats')]
    /\ calls' = calls + 1
    /\ UNCHANGED <<routes, handlers>>
    /\ UNCHANGED <<resets, queueVars, configVars>>

\* _execute_with_retries with retry_attempts <= 0: the for loop has no
\* iteration and Exception("All retry attempts failed") is raised
RouteNoAttempts(c, override) ==
    /\ MayCall(c)
    /\ PassRateCheck(c)
    /\ Resolved(c, override)
    /\ routes[Matched(c)].retry_attempts <= 0
    /\ ctx' = [ctx EXCEPT ![c].priority = Boosted(@, routes[Matched(c)].priority_boost)]
    /\ stats' = ResponseTime(Raised(Seen(stats, ctx[c])), 0)
    /\ call' = [call EXCEPT ![c] = [Entered(c) EXCEPT !.pc = "raised", !.rule = Matched(c),
                    !.override = override, !.handler = HandlerOf(c, override),
                    !.outcome = [kind |-> "Exception: All retry attempts failed",
                                 arg |-> 0]]]
    /\ api_log' = [caller |-> c, status |-> ApiStatus(stats')]
    /\ calls' = calls + 1
    /\ UNCHANGED <<routes, handlers>>
    /\ UNCHANGED <<resets, queueVars, configVars>>

\* route_request up to its first await: the handler is started for attempt 0
\* under asyncio.wait_for(handler(context), timeout=timeout_seconds)
RouteStart(c, override) ==
    /\ MayCall(c)
    /\ PassRateCheck(c)
    /\ Resolved(c, override)
    /\ routes[Matched(c)].retry_attempts > 0
    /\ ctx' = [ctx EXCEPT ![c].priority = Boosted(@, routes[Matched(c)].priority_boost)]
    /\ stats' = Seen(stats, ctx[c])
    /\ call' = [call EXCEPT ![c] = [Entered(c) EXCEPT !.pc = "running", !.rule = Matched(c),
                    !.override = override, !.handler = HandlerOf(c, override), !.invoked = 1]]
    /\ calls' = calls + 1
    /\ UNCHANGED <<routes, handlers, api_log>>
    /\ UNCHANGED <<resets, queueVars, configVars>>

\* mutant of Backoff: the first wait is 2 seconds (2 ** (attempt + 1))
Backoff_shifted(failure, attempt) ==
    IF failure = "timeout" THEN 2 ^ (attempt + 1) ELSE 1

\* the wait before the next attempt: asyncio.sleep(2 ** attempt) after a
\* timeout, asyncio.sleep(1) after an exception raised by the handler
Backoff(failure, attempt) ==
    IF failure = "timeout" THEN 2 ^ attempt ELSE 1

\* the exception an attempt ends with
AttemptError(failure) ==
    IF failure = "timeout" THEN "asyncio.TimeoutError" ELSE "handler exception"

\* mutant of Succeeded: a returned result is counted as a failure
Succeeded_as_failure(st) == [st EXCEPT !.failed_requests = @ + 1]

\* "Update success statistics"
Succeeded(st) == [st EXCEPT !.successful_requests = @ + 1]

\* the handler returns within the deadline: the result is returned at once,
\* successful_requests += 1, then the finally block
HandlerReturns(c) ==
    /\ call[c].pc = "running"
    /\ stats' = ResponseTime(Succeeded(stats), call[c].waited)
    /\ call' = [call EXCEPT ![c].pc = "returned",
                            ![c].outcome = [kind |-> "result", arg |-> call[c].invoked]]
    /\ api_log' = [caller |-> c, status |-> ApiStatus(stats')]
    /\ UNCHANGED <<routes, handlers, ctx, calls>>
    /\ UNCHANGED <<resets, queueVars, configVars>>
    /\ UNCHANGED rlVars

\* mutant of LastAttempt: one attempt more than retry_attempts is made
LastAttempt_one_more(attempt, retry_attempts) == ~(attempt < retry_attempts)

\* `if attempt < retry_attempts - 1` is false: no sleep, the for loop ends
LastAttempt(attempt, retry_attempts) == ~(attempt < retry_attempts - 1)

\* an attempt fails with attempts left: the deadline expires (the handler is
\* cancelled at timeout_seconds) or the handler raises; the call sleeps
HandlerFailsRetry(c, failure) ==
    /\ call[c].pc = "running"
    /\ ~LastAttempt(call[c].attempt, routes[call[c].rule].retry_attempts)
    /\ call' = [call EXCEPT
            ![c].pc = "backoff",
            ![c].fails = Append(@, failure),
            ![c].waited = @ + (IF failure = "timeout"
                               THEN routes[call[c].rule].timeout_seconds ELSE 0)]
    /\ UNCHANGED <<routes, handlers, stats, ctx, calls, api_log>>
    /\ UNCHANGED <<resets, queueVars, configVars>>
    /\ UNCHANGED rlVars

\* the sleep is over: the next iteration of the for loop starts the handler again
BackoffDone(c) ==
    /\ call[c].pc = "backoff"
    /\ LET wait == Backoff(call[c].fails[Len(call[c].fails)], call[c].attempt)
       IN  call' = [call EXCEPT ![c].pc = "running",
                                ![c].attempt = @ + 1,
                                ![c].invoked = @ + 1,
                                ![c].sleeps = Append(@, wait),
                                ![c].waited = @ + wait]
    /\ UNCHANGED <<routes, handlers, stats, ctx, calls, api_log>>
    /\ UNCHANGED <<resets, queueVars, configVars>>
    /\ UNCHANGED rlVars

\* the last attempt fails: `raise last_exception or Exception(...)` re-raises
\* the exception of that attempt; failed_requests += 1, then the finally block
HandlerFailsLast(c, failure) ==
    /\ call[c].pc = "running"
    /\ LastAttempt(call[c].attempt, routes[call[c].rule].retry_attempts)
    /\ call' = [call EXCEPT
            ![c].pc = "raised",
            ![c].fails = Append(@, failure),
            ![c].waited = @ + (IF failure = "timeout"
                               THEN routes[call[c].rule].timeout_seconds ELSE 0),
            ![c].outcome = [kind |-> AttemptError(failure), arg |-> 0]]
    /\ stats' = ResponseTime(Raised(stats), call'[c].waited)
    /\ api_log' = [caller |-> c, status |-> ApiStatus(stats')]
    /\ UNCHANGED <<routes, handlers, ctx, calls>>
    /\ UNCHANGED <<resets, queueVars, configVars>>
    /\ UNCHANGED rlVars

\* the endpoint of c has answered its request, or has none: it is not between
\* the exception of route_request and the direct handler call
EndpointDone(c) == call[c].pc = "raised" => call[c].direct # "none"

\* chat_endpoint and status_endpoint up to the first await inside
\* route_request: response = await request_router.route_request(context),
\* with no override
EndpointCalls(c) ==
    /\ EndpointDone(c)
    /\ RouteRateLimited(c) \/ RouteStart(c, FALSE)

\* `except Exception as router_error`: the error is logged and the endpoint
\* goes on to the "Direct handler call", response = await handle_chat(context)
\* (handle_status for /status); the handler's result is the response, its
\* exception becomes HTTP 500
EndpointFallback(c, outcome) ==
    /\ call[c].pc = "raised"
    /\ call[c].direct = "none"
    /\ call' = [call EXCEPT ![c].direct = outcome]
    /\ UNCHANGED <<routes, handlers, stats, ctx, calls, api_log, resets>>
    /\ UNCHANGED <<rlVars, queueVars, configVars>>

\* get_stats()["success_rate"]: successful_requests / max(1, total_requests) * 100,
\* in whole percent
success_rate(st) ==
    (st.successful_requests * 100) \div Max(1, st.total_requests)

\* mutant of ResetStats: the average latency survives the reset
ResetStats_keeps_average ==
    /\ resets < MaxResets
    /\ stats' = [ZeroStats EXCEPT !.average_response_time = stats.average_response_time]
    /\ resets' = resets + 1
    /\ UNCHANGED <<routes, handlers, ctx, call, calls, api_log>>
    /\ UNCHANGED <<rlVars, queueVars, configVars>>

\* reset_stats: self.stats = RequestStats()
ResetStats ==
    /\ resets < MaxResets
    /\ stats' = ZeroStats
    /\ resets' = resets + 1
    /\ UNCHANGED <<routes, handlers, ctx, call, calls, api_log>>
    /\ UNCHANGED <<rlVars, queueVars, configVars>>

----------------------------------------------------------------------------
(* RequestQueue and the worker loops *)

Producers == {"p1", "p2"}

\* the worker tasks created in a run, in the order of their creation
Workers == 1..MaxTasks

\* the arguments of start_workers: 0 (None or 0, which take the default
\* MaxWorkers) and the counts below the default
StartCounts == 0..(MaxWorkers - 1)

\* the priorities of the requests queued under SpecPool
PoolPriorities == {NORMAL, CRITICAL}

\* asyncio.Queue(maxsize=max_size // 4), one per priority
Capacity == max_size \div 4

\* asyncio.Queue.full(): a queue of maxsize <= 0 is never full
Full(q) == Capacity > 0 /\ Len(q) >= Capacity

NoItem == [id |-> 0, priority |-> 0]

\* a queue_request call: its (context, handler) pair, whether the level was
\* at capacity when it was called, and what it returned
NoPut == [pc |-> "idle", item |-> NoItem, full |-> FALSE, result |-> FALSE]

\* a worker task: where it is in _worker_loop and RequestQueue.get ("none":
\* not created, "loop": created and not yet run, "exited": done), the level
\* its queue.get() is for, the pair it dequeued; `found` records that this
\* get() saw a non-empty level, `higher` that a higher level held an item
\* when the pair was dequeued, `interrupted` that the task was cancelled
\* inside await handler(context), `cancelling` that the task was cancelled
\* inside wait_for while the task of its queue.get() was ready to run
NoWorker == [pc |-> "none", level |-> 0, item |-> NoItem,
             found |-> FALSE, higher |-> FALSE, interrupted |-> FALSE,
             cancelling |-> FALSE]

\* the history of a queued pair: the pair passed to queue_request, the pair
\* handed to the handler and the worker that did so, the number of times the
\* handler was invoked for it, and how the invocation ended ("none": not
\* invoked, "running", "returned", "raised", "cancelled"); `put` numbers the
\* pairs in the order they were appended to a queue and `got` in the order
\* they were dequeued (0: not yet)
NoRun == [queued |-> NoItem, given |-> NoItem, worker |-> 0, invoked |-> 0,
          outcome |-> "none", put |-> 0, got |-> 0]

\* the ids of the pairs: one for each queue_request call of a bounded run, and
\* one more for the runs in which pairs are queued without end
PairIds == 1..(MaxItems + 1)

\* the pairs appended to a queue so far, and the pairs dequeued so far
Admissions == Cardinality({i \in DOMAIN handled : handled[i].put > 0})

Dequeues == Cardinality({i \in DOMAIN handled : handled[i].got > 0})

\* the first level, from `start` down to LOW, whose queue is not empty (0: none)
NextLevel(qs, start) ==
    LET S == {p \in Priorities : p <= start /\ qs[p] # <<>>}
    IN  IF S = {} THEN 0 ELSE CHOOSE p \in S : \A q \in S : q <= p

\* no stop_workers call in progress (`tasks` are the tasks a call in progress
\* gathers); histories: `stopped` says that a
\* stop_workers call has returned and start_workers was not called since,
\* `asked` is the argument of the last start_workers call that found the pool
\* stopped (-1: none yet) and `spawned` the number of tasks it created,
\* `again` says that start_workers was called on the running pool since the
\* pool was last started or stopped
NoPool == [stop |-> "idle", tasks |-> <<>>, stopped |-> FALSE, asked |-> -1,
           spawned |-> 0, again |-> FALSE]

\* the worker tasks created so far
Created == {w \in Workers : wrk[w].pc # "none"}

\* the worker tasks that have not finished
Live == {w \in Workers : wrk[w].pc \notin {"none", "exited"}}

\* get_stats()["active_workers"]: len(self.worker_tasks)
active_workers == Len(worker_tasks)

\* RequestQueue(max_size) in RequestRouter.__init__: four empty queues, no
\* worker task
QueueOf(size) ==
    /\ max_size = size
    /\ queues = [p \in Priorities |-> <<>>]
    /\ prod = [p \in Producers |-> NoPut]
    /\ wrk = [w \in Workers |-> NoWorker]
    /\ nput = 0
    /\ is_processing = FALSE
    /\ worker_tasks = <<>>
    /\ pool = NoPool
    /\ handled = [i \in PairIds |-> NoRun]

\* the queue of the runs with one slot per level
QueueInit == QueueOf(MaxSize)

\* num_workers = num_workers or self.max_concurrent_workers
NumWorkers(n) == IF n # 0 THEN n ELSE MaxWorkers

\* mutant of AlreadyRunning: the test is left out
AlreadyRunning_never == FALSE

\* `if self.is_processing: return`
AlreadyRunning == is_processing

\* start_workers(num_workers); n = 0 stands for both None and 0.  Nothing
\* happens when the pool is running; otherwise the flag is set and the tasks
\* are created and appended to worker_tasks
StartWorkers(n) ==
    /\ IF AlreadyRunning
       THEN /\ UNCHANGED <<wrk, is_processing, worker_tasks>>
            /\ pool' = [pool EXCEPT !.stopped = FALSE, !.again = TRUE]
       ELSE LET first == Cardinality(Created) + 1
                last == Cardinality(Created) + NumWorkers(n)
            IN  /\ last <= MaxTasks
                /\ is_processing' = TRUE
                /\ wrk' = [w \in Workers |->
                             IF w \in first..last
                             THEN [NoWorker EXCEPT !.pc = "loop"] ELSE wrk[w]]
                /\ worker_tasks' = worker_tasks \o [i \in 1..NumWorkers(n) |-> first + i - 1]
                /\ pool' = [pool EXCEPT !.stopped = FALSE, !.asked = n,
                                        !.spawned = NumWorkers(n), !.again = FALSE]
    /\ UNCHANGED <<queues, prod, nput, handled>>
    /\ UNCHANGED <<max_size, rlVars, routeVars, configVars>>

\* the task of queue.get() that asyncio.wait_for created is ready to run: it
\* has not run yet, or the pair it waited for has arrived
GetReady(w) ==
    \/ wrk[w].pc = "get"
    \/ wrk[w].pc = "wait" /\ queues[wrk[w].level] # <<>>

\* task.cancel(): the task raises CancelledError at the await it is suspended
\* in when it runs next, whatever else runs before, and leaves the loop by
\* `except asyncio.CancelledError: break` (a task not yet run never runs); a
\* task inside await handler(context) is interrupted there.  A task inside
\* wait_for whose queue.get() task is ready is resumed after that task has
\* run: the cancellation is pending until then
Cancelled(w) ==
    IF wrk[w].pc \in {"none", "exited"} THEN wrk[w]
    ELSE IF GetReady(w) THEN [wrk[w] EXCEPT !.cancelling = TRUE]
    ELSE [wrk[w] EXCEPT !.pc = "exited", !.interrupted = (wrk[w].pc = "handling")]

\* the elements of a sequence
Range(seq) == {seq[i] : i \in 1..Len(seq)}

\* stop_workers up to `await asyncio.gather(...)`: the flag is cleared and
\* every task of worker_tasks is cancelled; with an empty list the call clears
\* it and returns at once
StopWorkers ==
    /\ pool.stop = "idle"
    /\ is_processing' = FALSE
    /\ wrk' = [w \in Workers |-> IF w \in Range(worker_tasks) THEN Cancelled(w) ELSE wrk[w]]
    /\ IF worker_tasks # <<>>
       THEN pool' = [pool EXCEPT !.stop = "gather", !.tasks = worker_tasks,
                                 !.again = FALSE]
       ELSE pool' = [pool EXCEPT !.stopped = TRUE, !.again = FALSE]
    /\ handled' = [i \in DOMAIN handled |->
                      IF \E w \in Range(worker_tasks) :
                            wrk[w].pc = "handling" /\ wrk[w].item.id = i
                      THEN [handled[i] EXCEPT !.outcome = "cancelled"]
                      ELSE handled[i]]
    /\ UNCHANGED <<queues, prod, nput, worker_tasks>>
    /\ UNCHANGED <<max_size, rlVars, routeVars, configVars>>

\* the gathered tasks are done: self.worker_tasks.clear() and the call returns
StopWorkersReturns ==
    /\ pool.stop = "gather"
    /\ \A w \in Range(pool.tasks) : wrk[w].pc = "exited"
    /\ worker_tasks' = <<>>
    /\ pool' = [pool EXCEPT !.stop = "idle", !.tasks = <<>>, !.stopped = TRUE]
    /\ UNCHANGED <<queues, prod, wrk, nput, is_processing, handled>>
    /\ UNCHANGED <<max_size, rlVars, routeVars, configVars>>

\* queue_request -> RequestQueue.put -> await queue.put(...): the pair is
\* appended when the level has room; on a full level asyncio.Queue.put waits
\* for a free slot (it never raises QueueFull, only put_nowait does)
QueueRequest(p, priority) ==
    /\ prod[p].pc \in {"idle", "returned"}
    /\ nput < MaxItems
    /\ nput' = nput + 1
    /\ LET item == [id |-> nput + 1, priority |-> priority]
       IN  IF Full(queues[priority])
           THEN /\ prod' = [prod EXCEPT ![p] =
                              [pc |-> "blocked", item |-> item,
                               full |-> TRUE, result |-> FALSE]]
                /\ UNCHANGED queues
           ELSE /\ queues' = [queues EXCEPT ![priority] = Append(@, item)]
                /\ prod' = [prod EXCEPT ![p] =
                              [pc |-> "returned", item |-> item,
                               full |-> FALSE, result |-> TRUE]]
    /\ handled' = [handled EXCEPT ![nput + 1] =
                      [@ EXCEPT !.queued = [id |-> nput + 1, priority |-> priority],
                                !.put = IF Full(queues[priority]) THEN 0
                                        ELSE Admissions + 1]]
    /\ UNCHANGED <<wrk, is_processing, worker_tasks, pool>>
    /\ UNCHANGED <<max_size, rlVars, routeVars, configVars>>

\* the pair with id i lies in a queue
InQueue(i) == \E p \in Priorities : \E k \in 1..Len(queues[p]) : queues[p][k].id = i

\* id i names no pair that is waiting or being handled: a pair queued now can
\* take it
FreeId(i) ==
    /\ ~InQueue(i)
    /\ \A p \in Producers : ~(prod[p].pc = "blocked" /\ prod[p].item.id = i)
    /\ \A w \in Workers : ~(wrk[w].pc = "handling" /\ wrk[w].item.id = i)

\* queue_request of a producer that never stops queuing: as QueueRequest, with
\* the calls not counted and the pair named by the least free id
QueueStream(p, priority) ==
    /\ prod[p].pc \in {"idle", "returned"}
    /\ \E i \in PairIds :
         /\ FreeId(i)
         /\ \A j \in PairIds : FreeId(j) => i <= j
         /\ LET item == [id |-> i, priority |-> priority]
            IN  /\ IF Full(queues[priority])
                   THEN /\ prod' = [prod EXCEPT ![p] =
                                      [pc |-> "blocked", item |-> item,
                                       full |-> TRUE, result |-> FALSE]]
                        /\ UNCHANGED queues
                   ELSE /\ queues' = [queues EXCEPT ![priority] = Append(@, item)]
                        /\ prod' = [prod EXCEPT ![p] =
                                      [pc |-> "returned", item |-> item,
                                       full |-> FALSE, result |-> TRUE]]
                /\ handled' = [handled EXCEPT ![i] = [NoRun EXCEPT !.queued = item]]
    /\ UNCHANGED <<wrk, nput, is_processing, worker_tasks, pool>>
    /\ UNCHANGED <<max_size, rlVars, routeVars, configVars>>

\* a slot of the level is free again: the waiting put appends and returns True
PutResumes(p) ==
    /\ prod[p].pc = "blocked"
    /\ ~Full(queues[prod[p].item.priority])
    /\ queues' = [queues EXCEPT ![prod[p].item.priority] = Append(@, prod[p].item)]
    /\ prod' = [prod EXCEPT ![p].pc = "returned", ![p].result = TRUE]
    /\ handled' = [handled EXCEPT ![prod[p].item.id].put = Admissions + 1]
    /\ UNCHANGED <<wrk, nput, is_processing, worker_tasks, pool>>
    /\ UNCHANGED <<max_size, rlVars, routeVars, configVars>>

\* RequestQueue.get continues its for loop at level `start`: at the first
\* non-empty level it hands queue.get() to asyncio.wait_for; with no such
\* level it returns None and the worker sleeps
ScanFrom(w, start, found) ==
    LET level == NextLevel(queues, start)
    IN  wrk' = [wrk EXCEPT ![w] =
                  IF level = 0
                  THEN [pc |-> "sleep", level |-> 0, item |-> NoItem,
                        found |-> found, higher |-> FALSE, interrupted |-> FALSE,
                        cancelling |-> FALSE]
                  ELSE [pc |-> "get", level |-> level, item |-> NoItem,
                        found |-> TRUE, higher |-> FALSE, interrupted |-> FALSE,
                        cancelling |-> FALSE]]

\* the top of the loop: `while self.is_processing` ends the task when the flag
\* is cleared, otherwise queue_item = await self.request_queue.get()
LoopTop(w) ==
    IF is_processing
    THEN ScanFrom(w, CRITICAL, FALSE)
    ELSE wrk' = [wrk EXCEPT ![w] = [NoWorker EXCEPT !.pc = "exited"]]

\* a task created by start_workers runs for the first time
WorkerGet(w) ==
    /\ wrk[w].pc = "loop"
    /\ LoopTop(w)
    /\ UNCHANGED <<queues, prod, nput, is_processing, worker_tasks, pool, handled>>
    /\ UNCHANGED <<max_size, rlVars, routeVars, configVars>>

\* mutant of Handed: the context reaches the handler with its priority boosted
\* as route_request would
Handed_boosted(item) == [item EXCEPT !.priority = Boosted(@, 1)]

\* context, handler = queue_item: the pair the worker calls, as dequeued
Handed(item) == item

\* mutant of Popleft: the pair appended last is taken
Popleft_last(q) == [item |-> q[Len(q)], rest |-> SubSeq(q, 1, Len(q) - 1)]

\* mutant of Popleft: the pair is returned and left at the head of its queue
Popleft_peek(q) == [item |-> Head(q), rest |-> q]

\* asyncio.Queue._get: self._queue.popleft() of the deque that _put appends to
Popleft(q) == [item |-> Head(q), rest |-> Tail(q)]

\* queue.get() dequeues the head of its level; get() returns the pair and the
\* worker calls the handler.  Before Python 3.12 a wait_for that is cancelled
\* when its queue.get() task is already done returns the pair instead of
\* raising CancelledError: the pending cancellation is lost
Dequeue(w) ==
    LET level == wrk[w].level
        got == Popleft(queues[level])
    IN  /\ queues' = [queues EXCEPT ![level] = got.rest]
        /\ wrk' = [wrk EXCEPT ![w].pc = "handling",
                              ![w].cancelling = FALSE,
                              ![w].item = Handed(got.item),
                              ![w].higher = \E p \in Priorities :
                                               p > level /\ queues[p] # <<>>]
        /\ handled' = [handled EXCEPT ![got.item.id] =
                          [@ EXCEPT !.given = Handed(got.item), !.worker = w,
                                    !.invoked = @ + 1, !.outcome = "running",
                                    !.got = Dequeues + 1]]

\* the pending cancellation reaches wait_for while queue.get() waits: the
\* get is cancelled and the worker leaves its loop
GetCancelled(w) ==
    /\ wrk' = [wrk EXCEPT ![w].pc = "exited", ![w].cancelling = FALSE]
    /\ UNCHANGED <<queues, handled>>

\* queue.get() runs (on its own task under wait_for before Python 3.12, at
\* once from 3.12 on): it dequeues, or waits when the level is empty by now
QueueGetRuns(w) ==
    /\ wrk[w].pc = "get"
    /\ IF queues[wrk[w].level] # <<>>
       THEN Dequeue(w)
       ELSE IF wrk[w].cancelling
       THEN GetCancelled(w)
       ELSE /\ wrk' = [wrk EXCEPT ![w].pc = "wait"]
            /\ UNCHANGED <<queues, handled>>
    /\ UNCHANGED <<prod, nput, is_processing, worker_tasks, pool>>
    /\ UNCHANGED <<max_size, rlVars, routeVars, configVars>>

\* a pair has arrived at the level a queue.get() waits for and the get runs
\* again: it dequeues, or finds that another worker has taken the pair
QueueGetWoken(w) ==
    /\ wrk[w].pc = "wait"
    /\ IF queues[wrk[w].level] # <<>>
       THEN Dequeue(w)
       ELSE wrk[w].cancelling /\ GetCancelled(w)
    /\ UNCHANGED <<prod, nput, is_processing, worker_tasks, pool>>
    /\ UNCHANGED <<max_size, rlVars, routeVars, configVars>>

\* the 0.1 s of wait_for pass before queue.get() has a pair: except
\* asyncio.TimeoutError: continue, with the next lower level
QueueGetTimeout(w) ==
    /\ wrk[w].pc \in {"get", "wait"}
    /\ ~wrk[w].cancelling
    /\ ScanFrom(w, wrk[w].level - 1, TRUE)
    /\ UNCHANGED <<queues, prod, nput, is_processing, worker_tasks, pool, handled>>
    /\ UNCHANGED <<max_size, rlVars, routeVars, configVars>>

\* how await handler(context) ends: it returns, or it raises an Exception
Outcomes == {"returned", "raised"}

\* mutant of AfterHandler: the handler's exception ends the worker task
AfterHandler_propagates(w, outcome) ==
    IF outcome = "raised"
    THEN wrk' = [wrk EXCEPT ![w] = [NoWorker EXCEPT !.pc = "exited"]]
    ELSE LoopTop(w)

\* after the handler: a result is dropped, an Exception is caught by the inner
\* `except Exception` and logged; either way the loop goes on at its top
\* without suspending
AfterHandler(w, outcome) == LoopTop(w)

\* await handler(context) returns or raises
WorkerHandled(w, outcome) ==
    /\ wrk[w].pc = "handling"
    /\ handled' = [handled EXCEPT ![wrk[w].item.id].outcome = outcome]
    /\ AfterHandler(w, outcome)
    /\ UNCHANGED <<queues, prod, nput, is_processing, worker_tasks, pool>>
    /\ UNCHANGED <<max_size, rlVars, routeVars, configVars>>

\* else: await asyncio.sleep(0.1) is over: the loop goes on at its top
WorkerSleepDone(w) ==
    /\ wrk[w].pc = "sleep"
    /\ LoopTop(w)
    /\ UNCHANGED <<queues, prod, nput, is_processing, worker_tasks, pool, handled>>
    /\ UNCHANGED <<max_size, rlVars, routeVars, configVars>>

----------------------------------------------------------------------------
(* Specifications *)

Failures == {"timeout", "exception"}

\* RequestRouter.__init__ and the registrations of the application, for a
\* rule list loaded from the persisted configuration
RouterInit ==
    /\ routes \in RuleTables
    /\ handlers = Registered
    /\ stats = ZeroStats
    /\ ctx \in [Callers -> [request_type : RequestTypes, priority : Priorities,
                           user_id : UserIds]]
    /\ \A c \in Callers : ctx[c].user_id = UserOf(c)
    /\ \A c \in Callers \ RouteCallers :
          ctx[c] = [request_type |-> "chat", priority |-> NORMAL, user_id |-> UserOf(c)]
    /\ call = [c \in Callers |-> Idle]
    /\ calls = 0
    /\ api_log = [caller |-> "", status |-> 0]
    /\ resets = 0

\* time passes between two route_request calls (the clock is read only in the
\* synchronous prefix of a call, so a tick during a call is seen as one after it)
RouteTick ==
    /\ \A c \in Callers : call[c].pc \in {"idle", "returned", "raised"}
    /\ calls < MaxCalls
    /\ Tick

RouteNext ==
    \/ RouteTick
    \/ \E c \in RouteCallers : RouteNoMatch(c)
    \/ \E c \in RouteCallers : RouteRateLimited(c)
    \/ \E c \in RouteCallers : RouteNoHandler(c)
    \/ \E c \in RouteCallers, override \in BOOLEAN : RouteNoAttempts(c, override)
    \/ \E c \in RouteCallers, override \in BOOLEAN : RouteStart(c, override)
    \/ \E c \in RouteCallers : HandlerReturns(c)
    \/ \E c \in RouteCallers, failure \in Failures : HandlerFailsRetry(c, failure)
    \/ \E c \in RouteCallers : BackoffDone(c)
    \/ \E c \in RouteCallers, failure \in Failures : HandlerFailsLast(c, failure)

RouteInit == RLInit /\ RouterInit /\ QueueInit /\ Constructed

SpecRoute == RouteInit /\ [][RouteNext]_vars

----------------------------------------------------------------------------
(* The RateLimiter alone *)

\* a router that is not used: no rule, no call
RouterUnused ==
    /\ routes = <<>>
    /\ handlers = Registered
    /\ stats = ZeroStats
    /\ ctx = [c \in Callers |->
                [request_type |-> "chat", priority |-> NORMAL, user_id |-> UserOf(c)]]
    /\ call = [c \in Callers |-> Idle]
    /\ calls = 0
    /\ api_log = [caller |-> "", status |-> 0]
    /\ resets = 0

RLNext == Tick \/ RLIsAllowed \/ RLGetRemaining

LimiterInit == RLInit /\ RouterUnused /\ QueueInit /\ Constructed

SpecRL == LimiterInit /\ [][RLNext]_vars

----------------------------------------------------------------------------
(* The RequestQueue with its producers and workers *)

QueueNext ==
    \/ \E n \in StartCounts : StartWorkers(n)
    \/ \E p \in Producers, priority \in Priorities : QueueRequest(p, priority)
    \/ \E p \in Producers : PutResumes(p)
    \/ \E w \in Workers : WorkerGet(w)
    \/ \E w \in Workers : QueueGetRuns(w)
    \/ \E w \in Workers : QueueGetWoken(w)
    \/ \E w \in Workers : QueueGetTimeout(w)
    \/ \E w \in Workers, outcome \in Outcomes : WorkerHandled(w, outcome)
    \/ \E w \in Workers : WorkerSleepDone(w)

QueueOnlyInit == RLInit /\ RouterUnused /\ QueueInit /\ Constructed

SpecQueue == QueueOnlyInit /\ [][QueueNext]_vars

----------------------------------------------------------------------------
(* The worker pool: start_workers and stop_workers with the queue *)

PoolNext ==
    \/ \E n \in StartCounts : StartWorkers(n)
    \/ StopWorkers
    \/ StopWorkersReturns
    \/ \E priority \in PoolPriorities : QueueRequest("p1", priority)
    \/ PutResumes("p1")
    \/ \E w \in Workers : WorkerGet(w)
    \/ \E w \in Workers : QueueGetRuns(w)
    \/ \E w \in Workers : QueueGetWoken(w)
    \/ \E w \in Workers : QueueGetTimeout(w)
    \/ \E w \in Workers, outcome \in Outcomes : WorkerHandled(w, outcome)
    \/ \E w \in Workers : WorkerSleepDone(w)

PoolInit == RLInit /\ RouterUnused /\ QueueInit /\ Constructed

SpecPool == PoolInit /\ [][PoolNext]_vars

----------------------------------------------------------------------------
(* The workers of a pool that is started and not stopped, with one producer *)

WorkNext ==
    \/ \E n \in StartCounts : StartWorkers(n)
    \/ \E priority \in PoolPriorities : QueueRequest("p1", priority)
    \/ PutResumes("p1")
    \/ \E w \in Workers : WorkerGet(w)
    \/ \E w \in Workers : QueueGetRuns(w)
    \/ \E w \in Workers : QueueGetWoken(w)
    \/ \E w \in Workers : QueueGetTimeout(w)
    \/ \E w \in Workers, outcome \in Outcomes : WorkerHandled(w, outcome)
    \/ \E w \in Workers : WorkerSleepDone(w)

\* a rule that matches every request: its handler name is not registered, it
\* boosts the priority by one, admits one request per minute and allows
\* three attempts
BypassTable == << Rule("unknown", "true", "default_handler", 1, 1, 1, 3) >>

\* a router with that rule, on which route_request is not called
WorkRouterInit ==
    /\ routes = BypassTable
    /\ handlers = Registered
    /\ stats = ZeroStats
    /\ ctx = [c \in Callers |->
                [request_type |-> "chat", priority |-> NORMAL, user_id |-> UserOf(c)]]
    /\ call = [c \in Callers |-> Idle]
    /\ calls = 0
    /\ api_log = [caller |-> "", status |-> 0]
    /\ resets = 0

WorkInit == RLInit /\ WorkRouterInit /\ QueueInit /\ Constructed

SpecWork == WorkInit /\ [][WorkNext]_vars

\* the steps of worker w when it is the only worker: no other task takes the
\* pair its queue.get() was started for, so the get never waits
WorkerRuns(w) ==
    \/ WorkerGet(w)
    \/ QueueGetRuns(w)
    \/ QueueGetTimeout(w)
    \/ \E outcome \in Outcomes : WorkerHandled(w, outcome)
    \/ WorkerSleepDone(w)

\* the steps of worker w in a pool of several workers: as WorkerRuns, and the
\* queue.get() that waited for a pair runs again
WorkerProgress(w) == WorkerRuns(w) \/ QueueGetWoken(w)

\* the pool of the runs with two workers: start_workers(2)
PairOfWorkers == {1, 2}

\* a pool of two workers that is started and not stopped, with one producer
OnceNext ==
    \/ StartWorkers(2)
    \/ \E priority \in PoolPriorities : QueueRequest("p1", priority)
    \/ PutResumes("p1")
    \/ \E w \in PairOfWorkers : WorkerProgress(w)

\* that pool when the event loop runs every task that is ready and every
\* handler returns or raises (each worker takes its next step), and a
\* queue.get() task that is ready again and again for a level runs before its
\* 0.1 s deadline at least now and then
SpecOnce ==
    /\ WorkInit
    /\ [][OnceNext]_vars
    /\ \A w \in PairOfWorkers : WF_vars(WorkerProgress(w))
    /\ \A w \in PairOfWorkers : \A level \in PoolPriorities :
          SF_vars(wrk[w].level = level /\ QueueGetRuns(w))

----------------------------------------------------------------------------
(* A queue whose levels have room for every pair of the run (no put waits),
   its producer and its workers *)

DeepNext ==
    \/ \E n \in StartCounts : StartWorkers(n)
    \/ \E priority \in PoolPriorities : QueueRequest("p1", priority)
    \/ \E w \in Workers : WorkerGet(w)
    \/ \E w \in Workers : QueueGetRuns(w)
    \/ \E w \in Workers : QueueGetWoken(w)
    \/ \E w \in Workers : QueueGetTimeout(w)
    \/ \E w \in Workers, outcome \in Outcomes : WorkerHandled(w, outcome)
    \/ \E w \in Workers : WorkerSleepDone(w)

DeepInit == RLInit /\ RouterUnused /\ QueueOf(4 * MaxItems) /\ Constructed

SpecDeep == DeepInit /\ [][DeepNext]_vars

----------------------------------------------------------------------------
(* Workers that always run when they can, handlers that terminate, and a
   producer that never stops queuing *)

\* the priorities of the pairs of the endless runs
StreamPriorities == {LOW, CRITICAL}

\* the pool of the endless runs: start_workers(1)
StreamWorkers == {1}

StreamNext ==
    \/ StartWorkers(1)
    \/ \E priority \in StreamPriorities : QueueStream("p1", priority)
    \/ PutResumes("p1")
    \/ \E w \in StreamWorkers : WorkerRuns(w)

StreamInit == RLInit /\ RouterUnused /\ QueueInit /\ Constructed

\* the event loop runs every task that is ready and every handler returns or
\* raises (each worker takes its next step); a queue.get() task that is ready
\* again and again for a level runs before its 0.1 s deadline at least now
\* and then
SpecStream ==
    /\ StreamInit
    /\ [][StreamNext]_vars
    /\ \A w \in StreamWorkers : WF_vars(WorkerRuns(w))
    /\ \A w \in StreamWorkers : \A level \in StreamPriorities :
          SF_vars(wrk[w].level = level /\ QueueGetRuns(w))

----------------------------------------------------------------------------
(* Queues built with different overall maxima, their producers and workers *)

\* the values of max_size: below four, four, and eight
Sizes == {1, MaxSize - 1, MaxSize, 2 * MaxSize}

SizesNext ==
    \/ \E n \in StartCounts : StartWorkers(n)
    \/ \E p \in Producers, priority \in PoolPriorities : QueueRequest(p, priority)
    \/ \E p \in Producers : PutResumes(p)
    \/ \E w \in Workers : WorkerGet(w)
    \/ \E w \in Workers : QueueGetRuns(w)
    \/ \E w \in Workers : QueueGetWoken(w)
    \/ \E w \in Workers : QueueGetTimeout(w)
    \/ \E w \in Workers, outcome \in Outcomes : WorkerHandled(w, outcome)
    \/ \E w \in Workers : WorkerSleepDone(w)

SizesInit ==
    /\ RLInit /\ RouterUnused /\ Constructed
    /\ \E size \in Sizes : QueueOf(size)

SpecSizes == SizesInit /\ [][SizesNext]_vars

----------------------------------------------------------------------------
(* route_request calls of two callers with reset_stats *)

\* the rule tables of the statistics runs
StatsTables ==
    { <<>>,
      << Rule("chat_requests", "chat", "handle_chat", 0, 2, 1, 3),
         Rule("unknown", "true", "default_handler", 2, 1, 1, 0) >>,
      << Rule("custom", "raises", "handle_chat", 1, 0, 2, 2),
         Rule("status_requests", "status", "handle_status", -1, 0, 2, 1) >> }

\* two callers: c1 with a request of either type, c2 with a status request
StatsRouterInit ==
    /\ routes \in StatsTables
    /\ handlers = Registered
    /\ stats = ZeroStats
    /\ ctx \in [Callers -> [request_type : RequestTypes, priority : {NORMAL},
                           user_id : UserIds]]
    /\ \A c \in Callers : ctx[c].user_id = UserOf(c)
    /\ ctx["c2"].request_type = "status"
    /\ call = [c \in Callers |-> Idle]
    /\ calls = 0
    /\ api_log = [caller |-> "", status |-> 0]
    /\ resets = 0

StatsNext ==
    \/ ResetStats
    \/ \E c \in Callers : RouteNoMatch(c)
    \/ \E c \in Callers : RouteRateLimited(c)
    \/ \E c \in Callers : RouteNoHandler(c)
    \/ \E c \in Callers, override \in BOOLEAN : RouteNoAttempts(c, override)
    \/ \E c \in Callers, override \in BOOLEAN : RouteStart(c, override)
    \/ \E c \in Callers : HandlerReturns(c)
    \/ \E c \in Callers, failure \in Failures : HandlerFailsRetry(c, failure)
    \/ \E c \in Callers : BackoffDone(c)
    \/ \E c \in Callers, failure \in Failures : HandlerFailsLast(c, failure)

StatsInit == RLInit /\ StatsRouterInit /\ QueueInit /\ Constructed

SpecStats == StatsInit /\ [][StatsNext]_vars

----------------------------------------------------------------------------
(* route_request calls of two callers of any identity under one rate-limited
   rule *)

\* a rule that matches every request, with a rate limit of one per minute
LimitedTable == << Rule("unknown", "true", "handle_chat", 0, 1, 1, 1) >>

KeysRouterInit ==
    /\ routes = LimitedTable
    /\ handlers = Registered
    /\ stats = ZeroStats
    /\ ctx \in [Callers -> [request_type : RequestTypes, priority : {NORMAL},
                           user_id : UserIds]]
    /\ call = [c \in Callers |-> Idle]
    /\ calls = 0
    /\ api_log = [caller |-> "", status |-> 0]
    /\ resets = 0

KeysNext ==
    \/ RouteTick
    \/ \E c \in Callers : RouteRateLimited(c)
    \/ \E c \in Callers : RouteStart(c, FALSE)
    \/ \E c \in Callers : HandlerReturns(c)
    \/ \E c \in Callers, failure \in Failures : HandlerFailsLast(c, failure)

KeysInit == RLInit /\ KeysRouterInit /\ QueueInit /\ Constructed

SpecKeys == KeysInit /\ [][KeysNext]_vars

----------------------------------------------------------------------------
(* route_request calls of one caller on one context, under rules that boost,
   lower or leave the priority *)

\* the rule tables of these runs: a status rule with a negative boost before
\* a chat rule with a boost of one and a rate limit of one per minute, and
\* that chat rule alone (a status request then matches no rule)
FrameTables ==
    { << Rule("status_requests", "status", "handle_status", -1, 0, 2, 1),
         Rule("chat_requests", "chat", "handle_chat", 1, 1, 1, 2) >>,
      << Rule("chat_requests", "chat", "handle_chat", 1, 1, 1, 2) >> }

FrameRouterInit ==
    /\ routes \in FrameTables
    /\ handlers = Registered
    /\ stats = ZeroStats
    /\ ctx \in [Callers -> [request_type : RequestTypes, priority : Priorities,
                           user_id : UserIds]]
    /\ \A c \in Callers : ctx[c].user_id = UserOf(c)
    /\ \A c \in Callers \ RouteCallers :
          ctx[c] = [request_type |-> "chat", priority |-> NORMAL, user_id |-> UserOf(c)]
    /\ call = [c \in Callers |-> Idle]
    /\ calls = 0
    /\ api_log = [caller |-> "", status |-> 0]
    /\ resets = 0

FrameNext ==
    \/ RouteTick
    \/ \E c \in RouteCallers : RouteNoMatch(c)
    \/ \E c \in RouteCallers : RouteRateLimited(c)
    \/ \E c \in RouteCallers : RouteStart(c, FALSE)
    \/ \E c \in RouteCallers : HandlerReturns(c)
    \/ \E c \in RouteCallers, failure \in Failures : HandlerFailsRetry(c, failure)
    \/ \E c \in RouteCallers : BackoffDone(c)
    \/ \E c \in RouteCallers, failure \in Failures : HandlerFailsLast(c, failure)

FrameInit == RLInit /\ FrameRouterInit /\ QueueInit /\ Constructed

SpecFrame == FrameInit /\ [][FrameNext]_vars

----------------------------------------------------------------------------
(* The /chat and /status endpoints of the backend API on the router *)

\* the chat and status rules of the default table
EndpointTable ==
    << Rule("chat_requests", "chat", "handle_chat", 0, 1, 1, 3),
       Rule("status_requests", "status", "handle_status", -1, 0, 2, 1) >>

\* the contexts of get_request_context: priority NORMAL, the request type set
\* by the endpoint
EndpointRouterInit ==
    /\ routes = EndpointTable
    /\ handlers = Registered
    /\ stats = ZeroStats
    /\ ctx \in [Callers -> [request_type : RequestTypes, priority : {NORMAL},
                           user_id : UserIds]]
    /\ \A c \in Callers : ctx[c].user_id = UserOf(c)
    /\ call = [c \in Callers |-> Idle]
    /\ calls = 0
    /\ api_log = [caller |-> "", status |-> 0]
    /\ resets = 0

EndpointNext ==
    \/ RouteTick
    \/ \E c \in Callers : EndpointCalls(c)
    \/ \E c \in Callers : HandlerReturns(c)
    \/ \E c \in Callers, failure \in Failures : HandlerFailsRetry(c, failure)
    \/ \E c \in Callers : BackoffDone(c)
    \/ \E c \in Callers, failure \in Failures : HandlerFailsLast(c, failure)
    \/ \E c \in Callers, outcome \in Outcomes : EndpointFallback(c, outcome)

EndpointInit == RLInit /\ EndpointRouterInit /\ QueueInit /\ Constructed

SpecEndpoint == EndpointInit /\ [][EndpointNext]_vars

----------------------------------------------------------------------------
(* Construction of the router on a rules file, and its configuration *)

ConfigRouterInit ==
    /\ routes = <<>>
    /\ handlers = {}
    /\ stats = ZeroStats
    /\ ctx \in [Callers -> [request_type : RequestTypes, priority : {NORMAL},
                           user_id : UserIds]]
    /\ \A c \in Callers : ctx[c].user_id = UserOf(c)
    /\ \A c \in Callers \ RouteCallers :
          ctx[c] = [request_type |-> "chat", priority |-> NORMAL, user_id |-> UserOf(c)]
    /\ call = [c \in Callers |-> Idle]
    /\ calls = 0
    /\ api_log = [caller |-> "", status |-> 0]
    /\ resets = 0

ConfigNext ==
    \/ LoadRoutingRules
    \/ \E rule \in RuleUniverse : AddRoute(rule)
    \/ \E name \in HandlerNames : RegisterHandler(name)

SetupInit == RLInit /\ ConfigRouterInit /\ QueueInit /\ ConfigInit

SpecConfig == SetupInit /\ [][ConfigNext]_vars

----------------------------------------------------------------------------
(* A router constructed on an empty rule list, configured by add_route and
   register_handler, then used by route_request *)

\* the router after construction on a file whose "rules" list is empty
EmptyTable ==
    /\ rules_file = RulesFile(<<>>)
    /\ loaded = TRUE
    /\ added = 0

DispatchNext ==
    \/ \E rule \in RuleUniverse : AddRoute(rule)
    \/ \E name \in HandlerNames : RegisterHandler(name)
    \/ \E c \in RouteCallers : RouteNoMatch(c)
    \/ \E c \in RouteCallers : RouteRateLimited(c)
    \/ \E c \in RouteCallers : RouteNoHandler(c)
    \/ \E c \in RouteCallers, override \in BOOLEAN : RouteNoAttempts(c, override)
    \/ \E c \in RouteCallers, override \in BOOLEAN : RouteStart(c, override)
    \/ \E c \in RouteCallers : HandlerReturns(c)
    \/ \E c \in RouteCallers, failure \in Failures : HandlerFailsRetry(c, failure)
    \/ \E c \in RouteCallers : BackoffDone(c)
    \/ \E c \in RouteCallers, failure \in Failures : HandlerFailsLast(c, failure)

DispatchInit == RLInit /\ ConfigRouterInit /\ QueueInit /\ EmptyTable

SpecDispatch == DispatchInit /\ [][DispatchNext]_vars

----------------------------------------------------------------------------
(* Claims about the RateLimiter, checked under SpecRL *)

\* the admissions of a history that lie in the window (t - Window, t]
InWindow(ts, t) == {i \in 1..Len(ts) : ts[i] > t - Window /\ ts[i] <= t}

\* C2: sliding-window bound.  A call is_allowed(K, L) that returns true found
\* fewer than L admissions of K strictly inside the last window and recorded
\* its own timestamp in the same step (so the window ending at the call holds
\* at most L admissions, the new one last in the list); and for every key the
\* number of admissions inside any single window never exceeds the limit
\* under which the key was admitted.
C2_SlidingWindowBound ==
    /\ \A k \in Keys : \A t \in 0..now :
            Cardinality(InWindow(admitted[k], t)) <= peak[k]
    /\ (rl.op = "is_allowed" /\ rl.result = 1) =>
            /\ Cardinality(InWindow(admitted[rl.key], rl.at)) <= rl.limit
            /\ rl.key \in DOMAIN requests
            /\ requests[rl.key] # <<>>
            /\ requests[rl.key][Len(requests[rl.key])] = rl.at
            /\ Len(requests[rl.key]) = Cardinality(InWindow(admitted[rl.key], rl.at))

\* C2 witness: the admission that fills a window up to the limit, made after
\* an earlier admission of the key has aged out
C2_Witness ==
    /\ rl.op = "is_allowed" /\ rl.result = 1 /\ rl.limit = 2
    /\ Cardinality(InWindow(admitted[rl.key], rl.at)) = 2
    /\ Len(admitted[rl.key]) = 3

\* C3: window recovery.  Once a key was rejected with get_remaining = 0, a call
\* is_allowed(K, L), L >= 1, made when every recorded admission of K is at or
\* before now - window is admitted again.
C3_WindowRecovery ==
    (rl.op = "is_allowed" /\ rl.recovered /\ rl.limit >= 1) => rl.result = 1

\* C3 witness: L admissions, a rejection with remaining 0, and an admission
\* made exactly one window after the last of them
C3_Witness ==
    /\ rl.op = "is_allowed" /\ rl.recovered /\ rl.result = 1
    /\ Len(admitted[rl.key]) = rl.limit + 1
    /\ admitted[rl.key][rl.limit] = rl.at - Window

----------------------------------------------------------------------------
(* Claims about route_request, checked under SpecRoute *)

Begun(c) == call[c].pc # "idle"

\* C1: first match wins.  A call executes under the first rule, in definition
\* order, whose predicate is true on the context, never under a later
\* matching rule; when no rule's predicate is true the call raises the
\* no-route error (ValueError "No route found") and invokes no handler.
C1_FirstMatchWins ==
    \A c \in Callers : Begun(c) =>
        LET matching == {i \in 1..Len(routes) : Condition(routes[i], ctx[c]) = "true"}
        IN  /\ call[c].rule # 0 =>
                /\ call[c].rule \in matching
                /\ \A j \in matching : call[c].rule <= j
            /\ matching = {} =>
                /\ call[c].rule = 0
                /\ call[c].pc = "raised"
                /\ call[c].outcome.kind = "ValueError: No route found"
                /\ call[c].invoked = 0
            /\ call[c].outcome.kind = "ValueError: No route found" => matching = {}

\* C1 witness: a handler invoked under rule 1 while rule 2 matches as well
C1_Witness ==
    \E c \in Callers :
        /\ call[c].rule = 1 /\ call[c].invoked >= 1
        /\ Len(routes) >= 2
        /\ Condition(routes[2], ctx[c]) = "true"
        /\ routes[2].handler # routes[1].handler

\* C5: priority clamp.  A context's priority is always one of LOW..CRITICAL;
\* under a matched rule with boost >= 0 the priority after the boost is
\* min(CRITICAL, priority at entry + boost), so a context at CRITICAL stays
\* CRITICAL under any positive boost.
C5_PriorityClamp ==
    \A c \in Callers :
        /\ ctx[c].priority \in Priorities
        /\ (Begun(c) /\ call[c].rule # 0) =>
              LET boost == routes[call[c].rule].priority_boost
              IN  /\ boost >= 0 =>
                        ctx[c].priority = Min(CRITICAL, call[c].entry_priority + boost)
                  /\ (boost > 0 /\ call[c].entry_priority = CRITICAL) =>
                        ctx[c].priority = CRITICAL

\* C5 witness: a context that entered at HIGH, boosted by 2, is at CRITICAL
C5_Witness ==
    \E c \in Callers :
        /\ Begun(c) /\ call[c].rule # 0
        /\ routes[call[c].rule].priority_boost = 2
        /\ call[c].entry_priority = HIGH
        /\ ctx[c].priority = CRITICAL

\* C6: retry success.  When the handler fails on its first k < attempts
\* invocations and succeeds on invocation k + 1, route_request returns the
\* result of that invocation, the handler has been invoked exactly k + 1
\* times, and the step that returns counts one success and no failure.
C6_RetrySuccess ==
    /\ [](\A c \in Callers : call[c].pc = "returned" =>
            /\ Len(call[c].fails) < routes[call[c].rule].retry_attempts
            /\ call[c].invoked = Len(call[c].fails) + 1
            /\ call[c].outcome = [kind |-> "result", arg |-> Len(call[c].fails) + 1])
    /\ [][\A c \in Callers :
            (call[c].pc = "running" /\ call'[c].pc = "returned") =>
                /\ stats'.successful_requests = stats.successful_requests + 1
                /\ stats'.failed_requests = stats.failed_requests]_vars

\* C6 witness: two failed invocations, the third returns
C6_Witness ==
    \E c \in Callers :
        /\ call[c].pc = "returned"
        /\ Len(call[c].fails) = 2
        /\ call[c].invoked = 3
        /\ stats.successful_requests >= 1

\* the errors a single attempt ends with
AttemptErrors == {AttemptError(f) : f \in Failures}

\* a call all of whose handler invocations failed
Exhausted(c) == call[c].pc = "raised" /\ call[c].fails # <<>>

AllTimedOut(c) ==
    /\ Exhausted(c)
    /\ \A i \in 1..Len(call[c].fails) : call[c].fails[i] = "timeout"

\* the waits of the timeout scenario: n deadlines, and backoffs 1, 2, ..., 2^(n-2)
TimeoutScenario(c) ==
    LET n == routes[call[c].rule].retry_attempts
        T == routes[call[c].rule].timeout_seconds
    IN  /\ call[c].invoked = n
        /\ Len(call[c].sleeps) = n - 1
        /\ \A i \in 1..Len(call[c].sleeps) : call[c].sleeps[i] = 2 ^ (i - 1)
        /\ call[c].waited >= n * T + (2 ^ (n - 1) - 1)

KeyOf(c) == RateKey(ctx[c])

LimitOf(c) == routes[call[c].rule].rate_limit

RateLimited(c) == call[c].outcome.kind = "Exception: Rate limit exceeded"

\* C4: a call under a rule with rate limit L is rejected with the rate-limit
\* error exactly when L requests of its key were already admitted within the
\* window at the call; the error carries the remaining-quota count, and that
\* count is 0.
C4_RateLimitExceeded ==
    \A c \in Callers : (Begun(c) /\ call[c].rule # 0 /\ LimitOf(c) > 0) =>
        /\ RateLimited(c) =>
            /\ Cardinality(InWindow(admitted[KeyOf(c)], call[c].at)) >= LimitOf(c)
            /\ call[c].outcome.arg = 0
        /\ ~RateLimited(c) =>
            /\ Cardinality(InWindow(admitted[KeyOf(c)], call[c].at)) <= LimitOf(c)
            /\ \E i \in 1..Len(admitted[KeyOf(c)]) : admitted[KeyOf(c)][i] = call[c].at

\* the deterministic rejections of route_request
Rejections == {"ValueError: No route found", "Exception: Rate limit exceeded"}

\* the step is the one in which the call of c is entered
Enters(c) == call'[c].seq # call[c].seq

\* C13: no retry of deterministic rejections.  A call that ends with the
\* no-route or the rate-limit error has invoked no handler, made no attempt
\* and waited for no backoff or deadline; the error is raised in the step
\* that enters the call, on the single evaluation of the rules and of the
\* rate check, which records no admission.
C13_NoRetryOfRejections ==
    /\ [](\A c \in Callers : call[c].outcome.kind \in Rejections =>
            /\ call[c].pc = "raised"
            /\ call[c].invoked = 0
            /\ call[c].attempt = 0
            /\ call[c].fails = <<>>
            /\ call[c].sleeps = <<>>
            /\ call[c].waited = 0)
    /\ [][\A c \in Callers :
            (call'[c] # call[c] /\ call'[c].outcome.kind \in Rejections) =>
                /\ Enters(c)
                /\ admitted' = admitted]_vars

\* C13 witness: a call rejected by the limiter under a rule with a registered
\* handler and three attempts
C13_Witness ==
    \E c \in Callers :
        /\ RateLimited(c)
        /\ routes[call[c].rule].retry_attempts = 3
        /\ routes[call[c].rule].handler \in handlers
        /\ call[c].invoked = 0

\* the rules whose predicate is true on, or raises on, the context of c
MatchingRules(c) == {i \in 1..Len(routes) : Condition(routes[i], ctx[c]) = "true"}

RaisingRules(c) == {i \in 1..Len(routes) : Condition(routes[i], ctx[c]) = "raise"}

\* C19: a rule whose predicate raises on the context is a non-match.  It is
\* never the rule selected, the rules after it are still evaluated (a
\* matching rule behind it is selected), and the call fails with the
\* no-route error only if no rule matches.
C19_RaisingPredicateIsNonMatch ==
    \A c \in Callers : Begun(c) =>
        /\ call[c].rule \notin RaisingRules(c)
        /\ \A j \in MatchingRules(c) :
              (\E i \in RaisingRules(c) : i < j) => (call[c].rule # 0 /\ call[c].rule <= j)
        /\ call[c].outcome.kind = "ValueError: No route found" => MatchingRules(c) = {}

\* C19 witness: the first rule raises and the handler of the second is invoked
C19_Witness ==
    \E c \in Callers :
        /\ 1 \in RaisingRules(c)
        /\ call[c].rule = 2
        /\ call[c].invoked >= 1

\* C20: no rate check without a limit.  A call whose matched rule has rate
\* limit zero or none is never rejected for rate limiting, and the step that
\* enters it leaves the limiter's timestamps as they were.
C20_NoLimitNoRateCheck ==
    /\ [](\A c \in Callers :
            (Begun(c) /\ call[c].rule # 0 /\ LimitOf(c) = 0) => ~RateLimited(c))
    /\ [][\A c \in Callers :
            (Enters(c) /\ call'[c].rule # 0 /\ routes[call'[c].rule].rate_limit = 0) =>
                requests' = requests]_vars

\* C20 witness: the second call of a key under a rule without limit, with no
\* timestamp recorded for the key
C20_Witness ==
    \E c \in Callers :
        /\ call[c].seq = 2
        /\ call[c].rule # 0
        /\ LimitOf(c) = 0
        /\ call[c].invoked >= 1
        /\ KeyOf(c) \notin DOMAIN requests

----------------------------------------------------------------------------
(* Claims about the RequestQueue, checked under SpecQueue *)

\* C8: non-blocking admission.  A queue_request on a level at capacity returns
\* false at once, never suspending its caller and leaving the queue as it
\* was; on a level below capacity it appends the pair and returns true.
C8_NonBlockingPut ==
    \A p \in Producers :
        /\ prod[p].pc # "blocked"
        /\ prod[p].pc = "returned" =>
              /\ prod[p].result = ~prod[p].full
              /\ prod[p].full =>
                    \A i \in 1..Len(queues[prod[p].item.priority]) :
                        queues[prod[p].item.priority][i] # prod[p].item

\* C9: strict priority dequeue.  A pair returned by get() comes from the
\* highest level that was non-empty when it was dequeued, whatever the
\* interleaving of workers and producers, and get() returns nothing only
\* when it found every level empty.
C9_StrictPriorityDequeue ==
    \A w \in Workers :
        /\ wrk[w].pc = "handling" => ~wrk[w].higher
        /\ wrk[w].pc = "sleep" => ~wrk[w].found

----------------------------------------------------------------------------
(* Claims about the statistics, checked under SpecStats *)

Ended(c) == call[c].pc \in {"returned", "raised"}

\* the step ends a route_request call of c: an outcome reaches the caller
Ends(c) ==
    /\ call'[c].pc \in {"returned", "raised"}
    /\ call[c].pc = "running" \/ call'[c].seq # call[c].seq

\* C11: stats on every outcome.  The step in which a route_request call
\* returns or raises (result, no route, rate limit, handler not found,
\* retries exhausted) adds exactly one to the success counter when it returns
\* and exactly one to the failure counter when it raises, and nothing to the
\* other; so with no call in flight and no reset so far, total = success + failure.
C11_StatsOnEveryOutcome ==
    /\ []((resets = 0 /\ \A c \in Callers : call[c].pc # "running" /\ call[c].pc # "backoff") =>
            stats.total_requests = stats.successful_requests + stats.failed_requests)
    /\ [][\A c \in Callers : Ends(c) =>
            /\ call'[c].pc = "returned" =>
                /\ stats'.successful_requests = stats.successful_requests + 1
                /\ stats'.failed_requests = stats.failed_requests
            /\ call'[c].pc = "raised" =>
                /\ stats'.failed_requests = stats.failed_requests + 1
                /\ stats'.successful_requests = stats.successful_requests]_vars

\* C11 witness: one call returned a result and one raised handler-not-found,
\* no reset: total 2 = 1 success + 1 failure
C11_Witness ==
    /\ resets = 0
    /\ \E c, d \in Callers :
        /\ call[c].pc = "returned"
        /\ call[d].outcome.kind = "ValueError: Handler not found"
    /\ stats.total_requests = 2
    /\ stats.successful_requests = 1
    /\ stats.failed_requests = 1

\* every count of the mapping d is kept or raised in e
Grown(d, e) == \A k \in DOMAIN d : k \in DOMAIN e /\ e[k] >= d[k]

\* C12: counter monotonicity.  In every step that is not a reset_stats call
\* the total, success and failure counters and every per-type and
\* per-priority count are kept or raised; a reset_stats call leaves, in its
\* one step, total, success, failure and the average latency at zero and both
\* breakdown mappings empty.
C12_CounterMonotonicity ==
    [][/\ resets' = resets =>
            /\ stats'.total_requests >= stats.total_requests
            /\ stats'.successful_requests >= stats.successful_requests
            /\ stats'.failed_requests >= stats.failed_requests
            /\ Grown(stats.requests_by_type, stats'.requests_by_type)
            /\ Grown(stats.requests_by_priority, stats'.requests_by_priority)
       /\ resets' # resets =>
            /\ stats'.total_requests = 0
            /\ stats'.successful_requests = 0
            /\ stats'.failed_requests = 0
            /\ stats'.average_response_time = 0
            /\ DOMAIN stats'.requests_by_type = {}
            /\ DOMAIN stats'.requests_by_priority = {}]_vars

\* C12 witness: the only call so far ended after a wait of a second or more,
\* so every counter and the average were positive, and a reset has zeroed them
C12_Witness ==
    /\ resets = 1
    /\ calls = 1
    /\ \E c \in Callers : Ended(c) /\ call[c].waited >= 1
    /\ stats = ZeroStats

----------------------------------------------------------------------------
(* Claims about configuration and dispatch, checked under SpecDispatch *)

\* C14: handler resolution.  add_route appends a rule whether or not its
\* handler name is registered.  A call that passes the rate check of its
\* rule and was given an override executes under the override, also when the
\* rule's handler name is not registered; without an override it executes
\* under the handler registered under the rule's handler name, and when none
\* is registered it raises the handler-not-found error and invokes no handler.
C14_HandlerResolution ==
    /\ [](\A c \in Callers :
            /\ call[c].invoked >= 1 =>
                  call[c].handler = IF call[c].override THEN "handler_override"
                                    ELSE routes[call[c].rule].handler
            /\ call[c].outcome.kind = "ValueError: Handler not found" =>
                  (~call[c].override /\ call[c].invoked = 0 /\ call[c].handler = ""))
    /\ [][/\ added' # added =>
                (Len(routes') = Len(routes) + 1 /\ routes' = Append(routes, routes'[Len(routes')]))
          /\ \A c \in Callers :
                (Enters(c) /\ call'[c].rule # 0
                   /\ call'[c].outcome.kind # "Exception: Rate limit exceeded") =>
                    LET name == routes[call'[c].rule].handler
                        notfound == call'[c].outcome.kind = "ValueError: Handler not found"
                    IN  /\ call'[c].override =>
                              (call'[c].handler = "handler_override" /\ ~notfound)
                        /\ (~call'[c].override /\ name \in handlers) =>
                              (call'[c].handler = name /\ ~notfound)
                        /\ (~call'[c].override /\ name \notin handlers) =>
                              (notfound /\ call'[c].invoked = 0)]_vars

\* C14 witness: a rule added with a handler name that is not registered, and
\* a call under it that runs the override
C14_Witness ==
    \E c \in Callers :
        /\ added >= 1
        /\ call[c].rule # 0
        /\ routes[call[c].rule].handler \notin handlers
        /\ call[c].override
        /\ call[c].invoked >= 1
        /\ call[c].handler = "handler_override"

----------------------------------------------------------------------------
(* Claims about construction, checked under SpecConfig *)

\* a rules file that exists and cannot be loaded as a list of rule objects
Malformed(file) == file.exists /\ (~file.json \/ FirstBad(file.rules) # 0)

\* C18: configuration fallback.  When the rules file is absent or malformed
\* at construction, the rule table after construction is exactly the default
\* rule set (chat, search, knowledge, status, admin, in that order, and no
\* rule loaded before the failure), and the file then holds the saved
\* default set, in both cases.
C18_ConfigurationFallback ==
    [][(~loaded /\ loaded' /\ (~rules_file.exists \/ Malformed(rules_file))) =>
            /\ routes' = DefaultRules
            /\ rules_file' = SavedFile(DefaultRules)]_vars

----------------------------------------------------------------------------
(* Claims about the worker pool, checked under SpecPool *)

\* C15: orderly stop.  From the return of a stop_workers call until
\* start_workers is called again, every worker loop the pool has started has
\* exited (so none dequeues an item or starts a handler), the running flag
\* is false and the active worker count is 0.
C15_OrderlyStop ==
    pool.stopped =>
        /\ Live = {}
        /\ ~is_processing
        /\ active_workers = 0

\* C16: cooperative stop.  stop_workers never interrupts a handler
\* invocation in flight: no worker is cancelled inside await handler(context).
C16_CooperativeStop ==
    \A w \in Workers : ~wrk[w].interrupted

\* C17: start_workers(n) on a stopped pool spawns exactly n worker loops, for
\* every n >= 0: after the call the running flag is true, n tasks were
\* created and the active worker count is n.
C17_StartSpawnsExactlyN ==
    [][(~is_processing /\ pool.stop = "idle" /\ is_processing') =>
            /\ pool'.spawned = pool'.asked
            /\ Cardinality({w \in Workers : wrk'[w].pc # "none"}) =
                  Cardinality(Created) + pool'.asked
            /\ Len(worker_tasks') = pool'.asked]_vars

----------------------------------------------------------------------------
(* Claims about the frame of the RateLimiter, checked under SpecRL *)

\* a step that is a call of get_remaining
GetRemainingStep == rl'.op = "get_remaining" /\ rl' # rl

\* C21: get_remaining(key, limit) is read-only.  A call leaves the mapping of
\* keys to timestamps as it was (no key created, no timestamp purged or added)
\* and returns max(0, limit - the admissions of key strictly inside the
\* window); the result is positive exactly when an is_allowed call made at the
\* same instant on the same key and limit would admit.
C21_GetRemainingReadOnly ==
    /\ [][GetRemainingStep => requests' = requests]_vars
    /\ [](rl.op = "get_remaining" =>
            /\ rl.result = Max(0, rl.limit
                                  - Cardinality(InWindow(admitted[rl.key], rl.at)))
            /\ (rl.result > 0) = is_allowed(requests, rl.key, rl.limit, rl.at).ok)

\* C21 witness: a call that found a timestamp older than the window in the
\* key's list, left it there, and counted only the one inside the window
C21_Witness ==
    /\ rl.op = "get_remaining" /\ rl.key \in DOMAIN requests
    /\ Len(requests[rl.key]) = 2
    /\ Cardinality(InWindow(admitted[rl.key], rl.at)) = 1
    /\ rl.limit = 2 /\ rl.result = 1

----------------------------------------------------------------------------
(* Claims about the rate-limit keys, checked under SpecKeys *)

\* caller c enters route_request in this step
Calls(c) == calls' = calls + 1 /\ call'[c].seq = calls'

\* what the limiter would answer for key k under limit l at the clock value t
Decision(reqs, k, l, t) == is_allowed(reqs, k, l, t).ok

\* the limiter's entry of key k is the same in both mappings
SameEntry(reqs, reqs2, k) ==
    /\ (k \in DOMAIN reqs) = (k \in DOMAIN reqs2)
    /\ k \in DOMAIN reqs => reqs[k] = reqs2[k]

\* the two requests differ in identity or in request type
Differ(cx, dx) == cx.user_id # dx.user_id \/ cx.request_type # dx.request_type

\* the call of c touches only the key formed of its identity (or "anonymous"
\* when it has none) and its request type
C22_OtherKeysUntouched ==
    [][\A c \in Callers : Calls(c) =>
          \A k \in AllKeys \ {RateKey(ctx[c])} :
             /\ SameEntry(requests, requests', k)
             /\ \A l \in 1..MaxLimit :
                   Decision(requests', k, l, now') = Decision(requests, k, l, now')]_vars

\* the call of c changes no decision on a request that differs from its own
C22_IndependentQuotas ==
    [][\A c, d \in Callers : (Calls(c) /\ Differ(ctx[c], ctx[d])) =>
          \A l \in 1..MaxLimit :
             Decision(requests', RateKey(ctx[d]), l, now')
                = Decision(requests, RateKey(ctx[d]), l, now')]_vars

\* C22: key isolation.  The rate-limit key of a request is its identity (or
\* "anonymous" when it has none) combined with its request type; the admissions
\* and rejections of one key never change the timestamp list or the admission
\* decision of any other key, so that requests which differ in identity or in
\* request type have independent quotas.
C22_KeyIsolation == C22_OtherKeysUntouched /\ C22_IndependentQuotas

----------------------------------------------------------------------------
(* Claims about revocation, checked under SpecRL *)

\* the timestamps the limiter counts for key k at the clock value t
Counted(reqs, k, t) == IF k \in DOMAIN reqs THEN Recent(reqs[k], t) ELSE <<>>

\* the admissions ever made for key k that are inside the window at t
Unexpired(k, t) == SelectSeq(admitted[k], LAMBDA x : x > t - Window)

\* a step that is an is_allowed call returning false
RejectedStep == rl'.op = "is_allowed" /\ rl'.result = 0 /\ rl' # rl

\* C23: no retroactive revocation.  Every admission made for a key is counted
\* against the key for as long as it is inside the window, and nothing else
\* is; a rejected is_allowed call records no timestamp; and across any step in
\* which no admission of the key ages out of the window, the remaining quota
\* of the key (under any one limit) does not increase.
C23_NoRetroactiveRevocation ==
    /\ [](\A k \in Keys : Counted(requests, k, now) = Unexpired(k, now))
    /\ [][RejectedStep =>
            Counted(requests', rl'.key, now') = Counted(requests, rl'.key, now)]_vars
    /\ [][\A k \in Keys, l \in 1..MaxLimit :
            Unexpired(k, now') = Unexpired(k, now)
                => get_remaining(requests', k, l, now')
                      <= get_remaining(requests, k, l, now)]_vars

\* C23 witness: a rejection under limit 1 of a key with two admissions, the
\* older one aged out and purged, the newer one still counted
C23_Witness ==
    /\ rl.op = "is_allowed" /\ rl.result = 0 /\ rl.limit = 1
    /\ Len(admitted[rl.key]) = 2
    /\ requests[rl.key] = <<admitted[rl.key][2]>>
    /\ get_remaining(requests, rl.key, rl.limit, now) = 0

----------------------------------------------------------------------------
(* Claims about the backoff, checked under SpecRoute *)

\* C24: backoff policy.  After the failed attempt number a (0-based) of a
\* route_request call, a timeout or an error raised by the handler alike, the
\* router waits 2^a seconds before the next attempt when attempts remain, and
\* does not wait after the final attempt.
C24_BackoffPolicy ==
    \A c \in RouteCallers :
        /\ \A i \in 1..Len(call[c].sleeps) : call[c].sleeps[i] = 2 ^ (i - 1)
        /\ call[c].pc \in {"running", "returned"}
              => Len(call[c].sleeps) = Len(call[c].fails)
        /\ call[c].pc = "backoff" => Len(call[c].sleeps) = Len(call[c].fails) - 1
        /\ (call[c].pc = "raised" /\ call[c].fails # <<>>)
              => Len(call[c].sleeps) = Len(call[c].fails) - 1

----------------------------------------------------------------------------
(* Claims about the handlers run by the workers, checked under SpecWork *)

\* the pair with id i waits in a queue, or in a put that has not returned
Waiting(i) ==
    \/ \E p \in Priorities : \E k \in 1..Len(queues[p]) : queues[p][k].id = i
    \/ \E p \in Producers : prod[p].pc = "blocked" /\ prod[p].item.id = i

\* the handler of pair i raises in this step
Fails(i) == handled[i].outcome = "running" /\ handled'[i].outcome = "raised"

\* C25: a handler failure inside a worker is terminal for that item only.  The
\* handler of the failed item was invoked exactly once and the item is not
\* queued again; the failure does not end the worker: it is back in
\* RequestQueue.get (or in its idle sleep) in the same step, and stays alive.
C25_WorkerFailureIsTerminal ==
    /\ [](\A i \in DOMAIN handled : handled[i].outcome = "raised" =>
            /\ handled[i].invoked = 1
            /\ ~Waiting(i)
            /\ wrk[handled[i].worker].pc \notin {"none", "exited"})
    /\ [][\A i \in DOMAIN handled : Fails(i) =>
            wrk'[handled[i].worker].pc \in {"get", "sleep"}]_vars

\* C25 witness: the worker whose handler raised for one pair is running the
\* handler of another pair
C25_Witness ==
    \E i, j \in DOMAIN handled :
        /\ i # j
        /\ handled[i].outcome = "raised"
        /\ handled[j].outcome = "running"
        /\ handled[j].worker = handled[i].worker

\* a step of a worker's loop
WorkerStep == \E w \in Workers : wrk[w].pc # "none" /\ wrk'[w] # wrk[w]

\* C26: background path bypass.  For each dequeued (context, handler) pair the
\* worker invokes exactly that handler with exactly that context, once, and
\* consults neither the rule table nor the rate limiter nor the timeout/retry
\* policy: the pair is handled although its rule's handler is not registered,
\* a raising handler is not invoked again, and processing leaves the rate
\* limiter, the context's priority and the stats counters as they were.
C26_BackgroundPathBypass ==
    /\ [](\A i \in DOMAIN handled : handled[i].invoked > 0 =>
            /\ handled[i].given = handled[i].queued
            /\ handled[i].invoked = 1)
    /\ [][WorkerStep =>
            /\ UNCHANGED <<requests, admitted, stats, ctx, call, calls, api_log>>
            /\ \A i \in DOMAIN handled :
                  handled'[i].queued = handled[i].queued]_vars

\* C26 witness: two pairs of the same priority were handled within one window,
\* one handler raised, under a rule that admits one request per minute and
\* names an unregistered handler; the limiter and the counters are untouched
C26_Witness ==
    /\ handled[1].outcome = "raised" /\ handled[2].outcome = "returned"
    /\ handled[1].queued.priority = handled[2].queued.priority
    /\ routes[1].rate_limit = 1 /\ routes[1].handler \notin handlers
    /\ requests = <<>> /\ stats = ZeroStats

----------------------------------------------------------------------------
(* Claims about the queue across a stop, checked under SpecPool *)

\* a step of stop_workers: its synchronous part, or its return
StopStep ==
    \/ pool.stop = "idle" /\ pool'.stop = "gather"
    \/ ~pool.stopped /\ pool'.stopped

\* C27: shutdown does not drain.  stop_workers leaves every pair that is
\* queued and not yet dequeued in its priority queue, in the same order: no
\* step of the call changes a queue, and no worker the call has cancelled
\* takes a pair out of a queue or runs a handler for it while the call waits
\* for the workers to finish.
C27_ShutdownDoesNotDrain ==
    [][/\ StopStep => queues' = queues
       /\ \A w \in Range(pool.tasks) :
             wrk'[w] # wrk[w] => (queues' = queues /\ wrk'[w].pc # "handling")]_vars

----------------------------------------------------------------------------
(* Claims about the order of a level, checked under SpecDeep *)

\* pair i was appended to its level before pair j was appended to the same level
AdmittedBefore(i, j) ==
    /\ handled[i].put > 0 /\ handled[j].put > 0
    /\ handled[i].queued.priority = handled[j].queued.priority
    /\ handled[i].put < handled[j].put

\* C28: FIFO per level.  Of two pairs admitted to the same priority level, the
\* one admitted first is dequeued first, under any interleaving of producers
\* and workers: when the later one has been dequeued, so has the earlier one,
\* and before it; the pairs still in a queue lie in the order of admission.
C28_FifoPerLevel ==
    /\ \A i, j \in DOMAIN handled : (AdmittedBefore(i, j) /\ handled[j].got > 0) =>
            (handled[i].got > 0 /\ handled[i].got < handled[j].got)
    /\ \A p \in Priorities : \A k, l \in 1..Len(queues[p]) :
            k < l => handled[queues[p][k].id].put < handled[queues[p][l].id].put

\* C28 witness: two pairs lay in one level together, and both have been
\* dequeued, by different workers
C28_Witness ==
    \E i, j \in DOMAIN handled :
        /\ AdmittedBefore(i, j)
        /\ handled[i].got > 0 /\ handled[j].got = handled[i].got + 1
        /\ handled[j].put < handled[i].got + Admissions
        /\ handled[i].worker # handled[j].worker
        /\ handled[i].outcome = "running" /\ handled[j].outcome = "running"

----------------------------------------------------------------------------
(* Claims about starvation, checked under SpecStream *)

\* C29: no unbounded starvation.  With workers running and handlers that
\* terminate, a pair queued at LOW priority is eventually dequeued, even while
\* pairs of higher priority continue to be queued.
C29_NoStarvation ==
    \A i \in PairIds :
        (is_processing /\ InQueue(i) /\ handled[i].queued.priority = LOW)
            ~> ~InQueue(i)

----------------------------------------------------------------------------
(* Claims about the bound of the queues, checked under SpecSizes *)

\* the priority levels whose queue changes in this step
Changed == {p \in Priorities : queues'[p] # queues[p]}

\* C30: bounded queues.  For every configured overall maximum M >= 1, after
\* any sequence of put and get operations the depth of each of the four
\* priority levels is at most M / 4 (integer division); and the levels are
\* independent: a put or a get on one level leaves the other three unchanged.
C30_BoundedQueues ==
    /\ [](\A p \in Priorities : Len(queues[p]) <= max_size \div 4)
    /\ [][Cardinality(Changed) <= 1]_vars

----------------------------------------------------------------------------
(* Claims about the observability event and the counters, checked under
   SpecStats *)

\* C31: the event's outcome is the call's own.  The log_api_request event
\* emitted in the step that ends a route_request call carries the success
\* status (200) if and only if that call returned a result and the failure
\* status (500) if and only if it raised, whatever earlier calls did.
C31_EventRecordsOwnOutcome ==
    [][\A c \in Callers : Ends(c) =>
            /\ api_log'.caller = c
            /\ api_log'.status = 200 <=> call'[c].pc = "returned"
            /\ api_log'.status = 500 <=> call'[c].pc = "raised"]_vars

\* the sum of the counts of a breakdown mapping
RECURSIVE SumOver(_, _)
SumOver(d, ks) ==
    IF ks = {} THEN 0
    ELSE LET k == CHOOSE x \in ks : TRUE IN d[k] + SumOver(d, ks \ {k})

SumOf(d) == SumOver(d, DOMAIN d)

\* the step enters a route_request call of c
Enter(c) == call'[c].seq # call[c].seq

\* the count of key in the mapping d, 0 for a key not yet seen
CountOf(d, key) == IF key \in DOMAIN d THEN d[key] ELSE 0

\* C32: seen-counter consistency.  The step that enters a route_request call,
\* whether or not a rule matches, adds exactly one to total (a call that ends
\* in the same step has had its one counted), one to the count of the
\* context's request type and one to the count of the priority the context
\* had at entry, creating a key on first use and touching no other key; in
\* every reachable state the per-type counts and the per-priority counts both
\* sum to total, resets included.
C32_SeenCounterConsistency ==
    /\ [](/\ SumOf(stats.requests_by_type) = stats.total_requests
          /\ SumOf(stats.requests_by_priority) = stats.total_requests)
    /\ [][\A c \in Callers : Enter(c) =>
            /\ stats'.total_requests = stats.total_requests + 1
            /\ DOMAIN stats'.requests_by_type =
                    DOMAIN stats.requests_by_type \cup {ctx[c].request_type}
            /\ DOMAIN stats'.requests_by_priority =
                    DOMAIN stats.requests_by_priority \cup {ctx[c].priority}
            /\ \A k \in DOMAIN stats'.requests_by_type :
                    stats'.requests_by_type[k] =
                        CountOf(stats.requests_by_type, k)
                            + (IF k = ctx[c].request_type THEN 1 ELSE 0)
            /\ \A k \in DOMAIN stats'.requests_by_priority :
                    stats'.requests_by_priority[k] =
                        CountOf(stats.requests_by_priority, k)
                            + (IF k = ctx[c].priority THEN 1 ELSE 0)]_vars

\* C32 witness: two calls were counted, one of them ended with no matching
\* rule, and the breakdown by type has two keys with one call each
C32_Witness ==
    /\ stats.total_requests = 2
    /\ \E c \in Callers : call[c].outcome.kind = "ValueError: No route found"
    /\ Cardinality(DOMAIN stats.requests_by_type) = 2
    /\ SumOf(stats.requests_by_priority) = 2

\* C33: snapshot consistency under reset.  In every reachable state, also
\* when reset_stats ran while route_request calls were in flight, success +
\* failure <= total, the success rate of get_stats is at most 100 percent,
\* and it is 0 when total is 0.
C33_SnapshotConsistency ==
    /\ stats.successful_requests + stats.failed_requests <= stats.total_requests
    /\ success_rate(stats) <= 100
    /\ stats.total_requests = 0 => success_rate(stats) = 0

----------------------------------------------------------------------------
(* Claims about the worker pool and the background path, checked under
   SpecPool *)

\* C34: worker bookkeeping under start/stop interleaving.  Whenever no
\* stop_workers call is in progress, the tracked worker list holds exactly
\* the worker loops that are alive, so the active worker count of the snapshot
\* is the number of running workers; and a stop_workers call returns only
\* when every worker loop has exited.  This is to hold under every
\* interleaving, a start_workers that runs while a stop_workers awaits the
\* exit of the workers included.
C34_WorkerBookkeeping ==
    /\ [](pool.stop = "idle" =>
            /\ Range(worker_tasks) = Live
            /\ active_workers = Cardinality(Live))
    /\ [][(pool.stop = "gather" /\ pool'.stop = "idle") =>
            {w \in Workers : wrk'[w].pc \notin {"none", "exited"}} = {}]_vars

\* the places of pair i in the queues
Places(i) ==
    {pk \in Priorities \X (1..MaxItems) :
        pk[2] <= Len(queues[pk[1]]) /\ queues[pk[1]][pk[2]].id = i}

\* the handler of pair i has returned or raised
Processed(i) == handled[i].outcome \in Outcomes

StartsAgain == pool'.again /\ ~pool.again

\* C36: start_workers on a running pool is a no-op.  The call spawns no
\* worker and leaves the worker list, the worker loops, the running flag and
\* the queues as they were; so in a pool that was started and not stopped,
\* whatever start_workers calls followed, the tasks created and the worker
\* list are exactly those of the call that started it.
C36_StartIsIdempotent ==
    /\ [][StartsAgain =>
            /\ is_processing /\ is_processing'
            /\ UNCHANGED <<wrk, worker_tasks, queues, prod, handled>>]_vars
    /\ [](is_processing =>
            /\ Created = 1..pool.spawned
            /\ worker_tasks = [i \in 1..pool.spawned |-> i]
            /\ pool.spawned = NumWorkers(pool.asked))

\* C36 witness: start_workers was called again on a running pool whose one
\* started worker is executing a handler; there is still one worker
C36_Witness ==
    /\ pool.again
    /\ is_processing
    /\ active_workers = 1
    /\ Cardinality(Created) = 1
    /\ \E w \in Workers : wrk[w].pc = "handling"

----------------------------------------------------------------------------
(* Claims about the attempts, the quota and the context of a route_request
   call, checked under SpecRoute *)

\* the call of c passed rule matching, the rate check and handler resolution
Dispatched(c) == call[c].handler # ""

\* C37: attempt count bounds.  In every route_request call that passes rule
\* matching, rate admission and handler resolution the handler is invoked at
\* most max(1, retry_attempts) times, and by the time the call has ended at
\* least once, for every configured retry_attempts >= 0.
C37_AttemptCountBounds ==
    \A c \in Callers :
        (Dispatched(c) /\ routes[call[c].rule].retry_attempts >= 0) =>
            /\ call[c].invoked <= Max(1, routes[call[c].rule].retry_attempts)
            /\ Ended(c) => call[c].invoked >= 1

\* the step enters a call of c that the rate limiter admits under a rule
\* with a rate limit
Admitted(c) ==
    /\ Enter(c)
    /\ Limited(c)
    /\ call'[c].outcome.kind # "Exception: Rate limit exceeded"

\* the step continues or ends a call of c that was entered in an earlier step
Continues(c) == call[c].pc \in {"running", "backoff"} /\ call'[c] # call[c]

\* C38: quota is consumed at admission, once per call.  The step in which a
\* route_request call is admitted by the rate limiter records exactly one
\* timestamp, the time of the call, for its key and none for another key,
\* whether the call then goes on to its handler or fails at once (handler
\* not found, no attempt allowed); the later steps of the call (attempts,
\* timeouts, backoff waits, the return or the final failure) record nothing.
\* So there are never more admissions on record than calls begun.
C38_QuotaConsumedAtAdmission ==
    /\ [][\A c \in Callers :
            /\ Admitted(c) =>
                /\ admitted'[KeyOf(c)] = Append(admitted[KeyOf(c)], now)
                /\ requests'[KeyOf(c)] =
                        Append(Purged(requests, KeyOf(c), now), now)
                /\ \A k \in AllKeys \ {KeyOf(c)} : admitted'[k] = admitted[k]
                /\ \A k \in DOMAIN requests \ {KeyOf(c)} : requests'[k] = requests[k]
            /\ Continues(c) => UNCHANGED <<requests, admitted>>]_vars
    /\ [](SumOf([k \in AllKeys |-> Len(admitted[k])]) <= calls)

\* C38 witness: the only call so far was admitted under a rule with a rate
\* limit, its handler was invoked more than once and the call has failed;
\* one timestamp is on record for its key
C38_Witness ==
    \E c \in Callers :
        /\ calls = 1
        /\ call[c].pc = "raised"
        /\ call[c].invoked >= 2
        /\ LimitOf(c) > 0
        /\ Len(admitted[KeyOf(c)]) = 1
        /\ Len(requests[KeyOf(c)]) = 1

----------------------------------------------------------------------------
(* Claims about the caller's context, checked under SpecFrame *)

\* the boost of the rule the call of c matches at its entry (0: no rule)
BoostAt(c) == IF Matched(c) = 0 THEN 0 ELSE routes[Matched(c)].priority_boost

\* C39: context frame.  No step changes the request type or the user id of a
\* context and no step lowers its priority; the priority changes only in the
\* step that enters a call matching a rule with a positive boost, where it
\* becomes min(CRITICAL, priority + boost) whether the call is then admitted,
\* rejected by the rate limiter or fails; a call that matches no rule, or a
\* rule whose boost is not positive, leaves the context as it was, and so
\* does every later step of a call.
C39_ContextFrame ==
    [][\A c \in Callers :
        /\ ctx'[c].request_type = ctx[c].request_type
        /\ ctx'[c].user_id = ctx[c].user_id
        /\ ctx'[c].priority >= ctx[c].priority
        /\ ctx'[c].priority # ctx[c].priority => Enter(c) /\ BoostAt(c) > 0
        /\ (Enter(c) /\ BoostAt(c) > 0) =>
              ctx'[c].priority = Min(CRITICAL, ctx[c].priority + BoostAt(c))
        /\ (Enter(c) /\ Matched(c) = 0) =>
              /\ ctx'[c] = ctx[c]
              /\ call'[c].outcome.kind = "ValueError: No route found"]_vars

\* C39 witness: the second call on a context was rejected by the rate limiter
\* and the context carries the boost of both calls
C39_Witness ==
    \E c \in Callers :
        /\ calls = 2
        /\ RateLimited(c)
        /\ call[c].entry_priority = NORMAL + 1
        /\ ctx[c].priority = NORMAL + 2

----------------------------------------------------------------------------
(* Claims about the endpoints of the backend API, checked under SpecEndpoint *)

\* C40: end-to-end enforcement in the backend API.  A /chat or /status
\* request whose route_request call was rejected by the rate limiter, or
\* failed in the router, is not executed by its handler afterwards: the
\* endpoint never calls the handler itself for a request the rate limiter
\* rejected, nor for one whose handler the router has already run and failed.
C40_EndToEndEnforcement ==
    \A c \in Callers :
        /\ RateLimited(c) => call[c].direct = "none"
        /\ (call[c].pc = "raised" /\ call[c].invoked > 0) => call[c].direct = "none"

====
